---- MODULE Spec2Model ----
(***************************************************************************)
(* Tool-call protocol adapter of backend/core/agentpress/tool_adapter.py.  *)
(*                                                                         *)
(* Python values are records tagged by k.  A Python string is a sequence   *)
(* of lexical tokens (its text), so that str(), json.dumps(), json.loads() *)
(* and the two regular expressions of the adapter work on text and are     *)
(* not the identity on values.                                             *)
(***************************************************************************)
EXTENDS Integers, Sequences, FiniteSets, TLC

\* ------------------------------------------------------------------ bounds

\* records in one native batch
MaxBatch == 2
\* <invoke> elements in one generated <function_calls> block
MaxInvokes == 2
\* <parameter> elements in one generated <invoke>
MaxParams == 2

\* ------------------------------------------------------------- text tokens

Word(w) == [t |-> "word", w |-> w]
Num(n) == [t |-> "num", n |-> n]
Kw(w) == [t |-> "kw", w |-> w]
StrLit(s) == [t |-> "strlit", s |-> s]
SqLit(s) == [t |-> "sqlit", s |-> s]
Ws == [t |-> "ws"]
LBrack == [t |-> "lbrack"]
RBrack == [t |-> "rbrack"]
LBrace == [t |-> "lbrace"]
RBrace == [t |-> "rbrace"]
Comma == [t |-> "comma"]
Colon == [t |-> "colon"]
FcOpen == [t |-> "fc"]
FcClose == [t |-> "efc"]
InvOpen(name) == [t |-> "inv", name |-> name]
InvFrag == [t |-> "invfrag"]
InvClose == [t |-> "einv"]
ParOpen(name) == [t |-> "par", name |-> name]
ParClose == [t |-> "epar"]

\* the text of a plain identifier
T(w) == <<Word(w)>>

\* ----------------------------------------------------------- Python values

PyNone == [k |-> "none"]
PyBool(b) == [k |-> "bool", b |-> b]
PyInt(n) == [k |-> "int", n |-> n]
PyStr(s) == [k |-> "str", s |-> s]
PyList(xs) == [k |-> "list", xs |-> xs]
PyDict(es) == [k |-> "dict", es |-> es]
Entry(key, val) == [key |-> key, val |-> val]
\* a raised exception, as the outcome of an evaluation
Exc == [k |-> "exc"]

NormalizedToolCall(tool_name, parameters, call_id, source_format, raw_call) ==
  [k |-> "call", tool_name |-> tool_name, parameters |-> parameters,
   call_id |-> call_id, source_format |-> source_format, raw_call |-> raw_call]

AdapterConfig(enable_native, enable_xml, prefer_native, auto_detect, strict_mode) ==
  [enable_native |-> enable_native, enable_xml |-> enable_xml,
   prefer_native |-> prefer_native, auto_detect |-> auto_detect,
   strict_mode |-> strict_mode]

DefaultConfig == AdapterConfig(TRUE, TRUE, TRUE, TRUE, FALSE)

\* Python truth value of an object
Truthy(v) ==
  CASE v.k = "none" -> FALSE
    [] v.k = "bool" -> v.b
    [] v.k = "int" -> v.n # 0
    [] v.k = "str" -> v.s # <<>>
    [] v.k = "list" -> v.xs # <<>>
    [] v.k = "dict" -> v.es # <<>>
    [] OTHER -> TRUE

\* key in d, for a dict d
HasKey(d, key) == \E i \in 1..Len(d.es) : d.es[i].key = key

\* d.get(key, default), for a dict d
DictGet(d, key, default) ==
  IF HasKey(d, key)
    THEN d.es[CHOOSE i \in 1..Len(d.es) : d.es[i].key = key].val
    ELSE default

\* es after d[key] = val: an existing key keeps its place
DictSet(es, key, val) ==
  IF \E i \in 1..Len(es) : es[i].key = key
    THEN [i \in 1..Len(es) |-> IF es[i].key = key THEN Entry(key, val) ELSE es[i]]
    ELSE Append(es, Entry(key, val))

\* ------------------------------------------------------------- text helpers

RECURSIVE Concat(_)
Concat(parts) ==
  IF parts = <<>> THEN <<>> ELSE Head(parts) \o Concat(Tail(parts))

\* sep.join(parts)
RECURSIVE Join(_, _)
Join(parts, sep) ==
  IF parts = <<>> THEN <<>>
  ELSE IF Len(parts) = 1 THEN parts[1]
  ELSE parts[1] \o sep \o Join(Tail(parts), sep)

\* first index >= i of t that is not whitespace (Len(t)+1 when there is none)
RECURSIVE SkipWs(_, _)
SkipWs(t, i) ==
  IF i <= Len(t) /\ t[i] = Ws THEN SkipWs(t, i + 1) ELSE i

RECURSIVE SkipWsBack(_, _)
SkipWsBack(t, i) ==
  IF i >= 1 /\ t[i] = Ws THEN SkipWsBack(t, i - 1) ELSE i

\* s.strip()
Strip(t) ==
  LET a == SkipWs(t, 1)
      b == SkipWsBack(t, Len(t))
  IN IF a > b THEN <<>> ELSE SubSeq(t, a, b)

\* ------------------------------------------------------------------- json

RECURSIVE JsonDumps(_)
JsonDumpsItems(xs) ==
  Join([i \in 1..Len(xs) |-> JsonDumps(xs[i])], <<Comma, Ws>>)
JsonDumpsMembers(es) ==
  Join([i \in 1..Len(es) |->
          <<StrLit(es[i].key), Colon, Ws>> \o JsonDumps(es[i].val)],
       <<Comma, Ws>>)
\* the text json.dumps(v) writes
JsonDumps(v) ==
  CASE v.k = "none" -> <<Kw("null")>>
    [] v.k = "bool" -> <<Kw(IF v.b THEN "true" ELSE "false")>>
    [] v.k = "int" -> <<Num(v.n)>>
    [] v.k = "str" -> <<StrLit(v.s)>>
    [] v.k = "list" -> <<LBrack>> \o JsonDumpsItems(v.xs) \o <<RBrack>>
    [] v.k = "dict" -> <<LBrace>> \o JsonDumpsMembers(v.es) \o <<RBrace>>
    [] OTHER -> T("object")

\* whether json.dumps(v) returns: it raises TypeError for any other object
RECURSIVE JsonSerializable(_)
JsonSerializable(v) ==
  CASE v.k \in {"none", "bool", "int", "str"} -> TRUE
    [] v.k = "list" -> \A i \in 1..Len(v.xs) : JsonSerializable(v.xs[i])
    [] v.k = "dict" -> \A i \in 1..Len(v.es) : JsonSerializable(v.es[i].val)
    [] OTHER -> FALSE

ParseFail == [ok |-> FALSE]
ParseOk(v, i) == [ok |-> TRUE, v |-> v, i |-> i]

\* the json decoder: a value starting at t[i], after optional whitespace
RECURSIVE ParseValue(_, _), ParseItems(_, _, _), ParseMembers(_, _, _)
ParseValue(t, i) ==
  LET j == SkipWs(t, i) IN
  IF j > Len(t) THEN ParseFail
  ELSE CASE t[j].t = "num" -> ParseOk(PyInt(t[j].n), j + 1)
         [] t[j].t = "kw" ->
              ParseOk(IF t[j].w = "null" THEN PyNone ELSE PyBool(t[j].w = "true"), j + 1)
         [] t[j].t = "strlit" -> ParseOk(PyStr(t[j].s), j + 1)
         [] t[j].t = "lbrack" ->
              LET n == SkipWs(t, j + 1) IN
              IF n <= Len(t) /\ t[n] = RBrack THEN ParseOk(PyList(<<>>), n + 1)
              ELSE ParseItems(t, j + 1, <<>>)
         [] t[j].t = "lbrace" ->
              LET n == SkipWs(t, j + 1) IN
              IF n <= Len(t) /\ t[n] = RBrace THEN ParseOk(PyDict(<<>>), n + 1)
              ELSE ParseMembers(t, j + 1, <<>>)
         [] OTHER -> ParseFail

\* the items of an array after "[" or ",": at least one value follows
ParseItems(t, i, acc) ==
  LET r == ParseValue(t, i) IN
  IF ~r.ok THEN ParseFail
  ELSE LET n == SkipWs(t, r.i) IN
       IF n > Len(t) THEN ParseFail
       ELSE IF t[n] = RBrack THEN ParseOk(PyList(Append(acc, r.v)), n + 1)
       ELSE IF t[n] = Comma THEN ParseItems(t, n + 1, Append(acc, r.v))
       ELSE ParseFail

\* the members of an object after "{" or ",": a later duplicate key wins
ParseMembers(t, i, acc) ==
  LET kx == SkipWs(t, i) IN
  IF kx > Len(t) \/ t[kx].t # "strlit" THEN ParseFail
  ELSE LET c == SkipWs(t, kx + 1) IN
       IF c > Len(t) \/ t[c] # Colon THEN ParseFail
       ELSE LET r == ParseValue(t, c + 1) IN
            IF ~r.ok THEN ParseFail
            ELSE LET n == SkipWs(t, r.i)
                     acc2 == DictSet(acc, t[kx].s, r.v)
                 IN IF n > Len(t) THEN ParseFail
                    ELSE IF t[n] = RBrace THEN ParseOk(PyDict(acc2), n + 1)
                    ELSE IF t[n] = Comma THEN ParseMembers(t, n + 1, acc2)
                    ELSE ParseFail

\* json.loads(t): the value, or Exc (JSONDecodeError)
JsonLoads(t) ==
  LET r == ParseValue(t, 1) IN
  IF r.ok /\ SkipWs(t, r.i) > Len(t) THEN r.v ELSE Exc

\* ------------------------------------------------------------ str and hash

RECURSIVE PyRepr(_)
\* repr(v), which str() of a list or dict uses for the elements
PyRepr(v) ==
  CASE v.k = "none" -> T("None")
    [] v.k = "bool" -> T(IF v.b THEN "True" ELSE "False")
    [] v.k = "int" -> <<Num(v.n)>>
    [] v.k = "str" -> <<SqLit(v.s)>>
    [] v.k = "list" ->
         <<LBrack>> \o Join([i \in 1..Len(v.xs) |-> PyRepr(v.xs[i])], <<Comma, Ws>>)
                    \o <<RBrack>>
    [] v.k = "dict" ->
         <<LBrace>> \o Join([i \in 1..Len(v.es) |->
                               <<SqLit(v.es[i].key), Colon, Ws>> \o PyRepr(v.es[i].val)],
                            <<Comma, Ws>>)
                    \o <<RBrace>>
    [] OTHER -> T("object")

\* str(v), as an f-string formats v
PyStrOf(v) == IF v.k = "str" THEN v.s ELSE PyRepr(v)

VARIABLES
  config,      \* self.config of the adapter
  hashSeed,    \* the interpreter's string hash seed, fixed for the process
  raw_input,   \* the payload last given to normalize_tool_calls
  calls,       \* what normalize_tool_calls returned for raw_input
  last,        \* the caller's last call on the adapter after that, with its result
  env,                 \* core.utils.config and the collaborators' answers, fixed for the process
  registry,            \* the ModelRegistry instance: _models and _aliases
  embedding_registry,  \* the EmbeddingModelRegistry instance: _models and _aliases
  history,             \* the registrations made so far: their number, and per registry
                       \* the lower-cased ids and aliases ever passed to register
  ret,                 \* the caller's last call on a registry or the selector, with its result
  threads,             \* the threads at work inside a registry call: where each one is
                       \* in the method's body, and its locals
  _ollama_cache,       \* models_api._ollama_cache: the stored status and its timestamp
  clock                \* time.time(), in seconds

adapterVars == <<config, hashSeed, raw_input, calls, last>>
statusVars == <<_ollama_cache, clock>>
registryVars == <<env, registry, embedding_registry, history, ret, threads, _ollama_cache, clock>>
vars == <<config, hashSeed, raw_input, calls, last,
          env, registry, embedding_registry, history, ret, threads, _ollama_cache, clock>>

TextCode(s) ==
  IF s = T("a") THEN 1 ELSE IF s = T("b") THEN 2 ELSE IF s = T("None") THEN 3 ELSE 4

\* hash(v): strings are salted by the process's seed, hash("") is 0,
\* a list or dict is unhashable (TypeError)
PyHash(v) ==
  CASE v.k \in {"list", "dict"} -> Exc
    [] v.k = "none" -> PyInt(5)
    [] v.k = "bool" -> PyInt(IF v.b THEN 1 ELSE 0)
    [] v.k = "int" -> PyInt(v.n)
    [] v.k = "str" -> PyInt(IF v.s = <<>> THEN 0 ELSE hashSeed * 10 + TextCode(v.s))
    [] OTHER -> PyInt(6)

\* ---------------------------------------------------- native record parsing

\* lines 120-123 and 136-139: a string is decoded, anything else is kept as it is
DecodeArguments(arguments) ==
  IF arguments.k = "str"
    THEN IF Truthy(arguments) THEN JsonLoads(arguments.s) ELSE PyDict(<<>>)
    ELSE arguments

\* the body of the try block of _parse_single_native_call: the call, None,
\* or Exc when a statement raises
parse_single_native_call_try(call) ==
  IF call.k # "dict" THEN Exc
  ELSE IF DictGet(call, T("type"), PyNone) = PyStr(T("function"))
          /\ HasKey(call, T("function"))
    THEN LET func == DictGet(call, T("function"), PyNone) IN
         IF func.k # "dict" THEN Exc
         ELSE LET tool_name == DictGet(func, T("name"), PyNone)
                  arguments == DictGet(func, T("arguments"), PyStr(<<LBrace, RBrace>>))
                  parameters == DecodeArguments(arguments)
              IN IF parameters = Exc THEN Exc
                 ELSE NormalizedToolCall(tool_name, parameters,
                                         DictGet(call, T("id"), PyNone), "native", call)
  ELSE IF HasKey(call, T("name"))
    THEN LET arguments == DictGet(call, T("arguments"), PyDict(<<>>))
             parameters == DecodeArguments(arguments)
         IN IF parameters = Exc THEN Exc
            ELSE NormalizedToolCall(DictGet(call, T("name"), PyNone), parameters,
                                    DictGet(call, T("id"), PyNone), "native", call)
  ELSE PyNone

\* mutant: the try block without its except clause
parse_single_native_call_noexcept(call) == parse_single_native_call_try(call)

\* except Exception: log and fall through to return None
parse_single_native_call(call) ==
  LET r == parse_single_native_call_try(call) IN
  IF r = Exc THEN PyNone ELSE r

\* mutant: the loop ends at the first record that does not parse
RECURSIVE parse_native_loop_break(_, _, _)
parse_native_loop_break(tool_calls, i, normalized) ==
  IF i > Len(tool_calls) THEN PyList(normalized)
  ELSE LET normalized_call == parse_single_native_call(tool_calls[i]) IN
       IF ~Truthy(normalized_call) THEN PyList(normalized)
       ELSE parse_native_loop_break(tool_calls, i + 1, Append(normalized, normalized_call))

\* the loop of _parse_native_tool_calls from element i on
RECURSIVE parse_native_loop(_, _, _)
parse_native_loop(tool_calls, i, normalized) ==
  IF i > Len(tool_calls) THEN PyList(normalized)
  ELSE LET normalized_call == parse_single_native_call(tool_calls[i]) IN
       IF normalized_call = Exc THEN Exc
       ELSE parse_native_loop(tool_calls, i + 1,
                              IF Truthy(normalized_call)
                                THEN Append(normalized, normalized_call)
                                ELSE normalized)

parse_native_tool_calls(tool_calls) == parse_native_loop(tool_calls, 1, <<>>)

\* ------------------------------------------------------------- XML parsing

Min(S) == CHOOSE x \in S : \A y \in S : x <= y

\* [^"']+ : a non-empty attribute value without a quote
AttrOk(name) ==
  name # <<>> /\ \A i \in 1..Len(name) : name[i].t \notin {"strlit", "sqlit"}

NoMatch == [ok |-> FALSE]

\* where the lazy (.*?) that starts at b stops: the first </invoke> that is
\* followed by \s*</function_calls>; 0 when there is none
BodyEnd(t, b) ==
  LET C == {e \in b..Len(t) :
              /\ t[e] = InvClose
              /\ LET n == SkipWs(t, e + 1) IN n <= Len(t) /\ t[n] = FcClose}
  IN IF C = {} THEN 0 ELSE Min(C)

\* _xml_pattern matched at position i of t
xml_pattern_at(t, i) ==
  IF t[i] # FcOpen THEN NoMatch
  ELSE LET j == SkipWs(t, i + 1) IN
       IF j > Len(t) THEN NoMatch
       ELSE IF t[j].t # "inv" THEN NoMatch
       ELSE IF ~AttrOk(t[j].name) THEN NoMatch
       ELSE LET e == BodyEnd(t, j + 1) IN
            IF e = 0 THEN NoMatch
            ELSE [ok |-> TRUE, group1 |-> t[j].name,
                  group2 |-> SubSeq(t, j + 1, e - 1),
                  group0 |-> SubSeq(t, i, SkipWs(t, e + 1)),
                  end |-> SkipWs(t, e + 1)]

\* _param_pattern matched at position i of t
param_pattern_at(t, i) ==
  IF t[i].t # "par" THEN NoMatch
  ELSE IF ~AttrOk(t[i].name) THEN NoMatch
  ELSE LET C == {e \in (i + 1)..Len(t) : t[e] = ParClose} IN
       IF C = {} THEN NoMatch
       ELSE [ok |-> TRUE, group1 |-> t[i].name,
             group2 |-> SubSeq(t, i + 1, Min(C) - 1), end |-> Min(C)]

\* the parameters loop of _parse_xml_tool_calls: finditer from position i on
RECURSIVE parse_params_loop(_, _, _)
parse_params_loop(params_xml, i, parameters) ==
  LET S == {s \in i..Len(params_xml) : param_pattern_at(params_xml, s).ok} IN
  IF S = {} THEN parameters
  ELSE LET param_match == param_pattern_at(params_xml, Min(S))
           param_value == Strip(param_match.group2)
           decoded == JsonLoads(param_value)
       IN parse_params_loop(params_xml, param_match.end + 1,
            DictSet(parameters, param_match.group1,
                    IF decoded = Exc THEN PyStr(param_value) ELSE decoded))

\* the matches loop of _parse_xml_tool_calls: finditer from position i on
RECURSIVE parse_xml_loop(_, _, _)
parse_xml_loop(xml_content, i, normalized) ==
  LET S == {s \in i..Len(xml_content) : xml_pattern_at(xml_content, s).ok} IN
  IF S = {} THEN PyList(normalized)
  ELSE LET match == xml_pattern_at(xml_content, Min(S)) IN
       parse_xml_loop(xml_content, match.end + 1,
         Append(normalized,
                NormalizedToolCall(PyStr(match.group1),
                                   PyDict(parse_params_loop(match.group2, 1, <<>>)),
                                   PyNone, "xml", PyStr(match.group0))))

parse_xml_tool_calls(xml_content) == parse_xml_loop(xml_content, 1, <<>>)

\* ---------------------------------------------------------------- normalize

normalize_tool_calls(raw) ==
  IF ~Truthy(raw) THEN PyList(<<>>)
  ELSE IF raw.k = "str" THEN parse_xml_tool_calls(raw.s)
  ELSE IF raw.k = "list" THEN parse_native_tool_calls(raw.xs)
  ELSE IF raw.k = "dict"
    THEN LET normalized == parse_single_native_call(raw) IN
         IF normalized = Exc THEN Exc
         ELSE IF Truthy(normalized) THEN PyList(<<normalized>>) ELSE PyList(<<>>)
  ELSE PyList(<<>>)

\* ----------------------------------------------------------------- emitters

\* mutant: the arguments written with str() instead of json.dumps()
native_call_str(call) ==
  PyDict(<<Entry(T("id"), IF Truthy(call.call_id) THEN call.call_id
                          ELSE PyStr(<<Word("call_")>> \o PyStrOf(PyHash(call.tool_name)))),
           Entry(T("type"), PyStr(T("function"))),
           Entry(T("function"),
                 PyDict(<<Entry(T("name"), call.tool_name),
                          Entry(T("arguments"), PyStr(PyStrOf(call.parameters)))>>))>>)

\* mutant: the synthesized id made from the arguments as well
native_call_argid(call) ==
  PyDict(<<Entry(T("id"), IF Truthy(call.call_id) THEN call.call_id
                          ELSE PyStr(<<Word("call_")>> \o PyStrOf(PyHash(call.tool_name))
                                     \o JsonDumps(call.parameters))),
           Entry(T("type"), PyStr(T("function"))),
           Entry(T("function"),
                 PyDict(<<Entry(T("name"), call.tool_name),
                          Entry(T("arguments"), PyStr(JsonDumps(call.parameters)))>>))>>)

\* one record of to_native_format (lines 199-206), or Exc
native_call(call) ==
  LET h == PyHash(call.tool_name)
      id == IF Truthy(call.call_id) THEN call.call_id
            ELSE IF h = Exc THEN Exc
            ELSE PyStr(<<Word("call_")>> \o PyStrOf(h))
      arguments == JsonDumps(call.parameters)
  IN IF id = Exc \/ ~JsonSerializable(call.parameters) THEN Exc
     ELSE PyDict(<<Entry(T("id"), id),
                   Entry(T("type"), PyStr(T("function"))),
                   Entry(T("function"),
                         PyDict(<<Entry(T("name"), call.tool_name),
                                  Entry(T("arguments"), PyStr(arguments))>>))>>)

to_native_format(normalized_calls) ==
  LET native_calls == [i \in 1..Len(normalized_calls.xs) |->
                         native_call(normalized_calls.xs[i])]
  IN IF \E i \in 1..Len(native_calls) : native_calls[i] = Exc THEN Exc
     ELSE PyList(native_calls)

\* the xml_parts of one parameter (lines 226-233)
xml_parameter(param_name, param_value) ==
  LET value_str == IF param_value.k \in {"dict", "list"}
                     THEN JsonDumps(param_value)
                     ELSE PyStrOf(param_value)
  IN <<ParOpen(param_name)>> \o value_str \o <<ParClose>>

\* the xml_parts of one call (lines 224-235)
xml_invoke_parts(call) ==
  <<(<<InvOpen(PyStrOf(call.tool_name))>>)>>
  \o [i \in 1..Len(call.parameters.es) |->
        xml_parameter(call.parameters.es[i].key, call.parameters.es[i].val)]
  \o <<(<<InvClose>>)>>

\* whether lines 224-235 complete for the call: parameters must have items()
\* (AttributeError) and json.dumps must accept each dict or list value
xml_invoke_returns(call) ==
  /\ call.parameters.k = "dict"
  /\ \A i \in 1..Len(call.parameters.es) : JsonSerializable(call.parameters.es[i].val)

\* mutant: no early return for an empty list
to_xml_format_wrapper(normalized_calls) ==
  PyStr(Join(<<(<<FcOpen>>)>>
             \o Concat([i \in 1..Len(normalized_calls.xs) |->
                          xml_invoke_parts(normalized_calls.xs[i])])
             \o <<(<<FcClose>>)>>,
             <<Ws>>))

to_xml_format(normalized_calls) ==
  IF ~Truthy(normalized_calls) THEN PyStr(<<>>)
  ELSE IF \E i \in 1..Len(normalized_calls.xs) :
            ~xml_invoke_returns(normalized_calls.xs[i])
    THEN Exc
  ELSE LET per_call == [i \in 1..Len(normalized_calls.xs) |->
                          xml_invoke_parts(normalized_calls.xs[i])]
       IN PyStr(Join(<<(<<FcOpen>>)>> \o Concat(per_call) \o <<(<<FcClose>>)>>,
                          <<Ws>>))

\* -------------------------------------------------------------- detection

\* whether the text holds a token of one of the kinds, also inside a quoted
\* string or an attribute value (a substring test sees those too)
RECURSIVE TextHas(_, _)
TextHas(t, kinds) ==
  \E i \in 1..Len(t) :
    \/ t[i].t \in kinds
    \/ t[i].t \in {"strlit", "sqlit"} /\ TextHas(t[i].s, kinds)
    \/ t[i].t \in {"inv", "par"} /\ TextHas(t[i].name, kinds)

\* mutant: only the function key makes a record native
detect_format_function_key(content) ==
  IF content.k = "str" /\ TextHas(content.s, {"fc"})
     /\ TextHas(content.s, {"inv", "invfrag"})
    THEN "xml"
  ELSE IF content.k = "list" /\ Len(content.xs) > 0
    THEN LET first == content.xs[1] IN
         IF first.k = "dict" /\ HasKey(first, T("function"))
           THEN "native" ELSE "unknown"
  ELSE IF content.k = "dict" /\ HasKey(content, T("function"))
    THEN "native"
  ELSE "unknown"

\* mutant: one marker is enough for xml
detect_format_either(content) ==
  IF content.k = "str"
     /\ (TextHas(content.s, {"fc"}) \/ TextHas(content.s, {"inv", "invfrag"}))
    THEN "xml"
  ELSE IF content.k = "list" /\ Len(content.xs) > 0
    THEN LET first == content.xs[1] IN
         IF first.k = "dict" /\ (HasKey(first, T("function")) \/ HasKey(first, T("name")))
           THEN "native" ELSE "unknown"
  ELSE IF content.k = "dict"
          /\ (HasKey(content, T("function")) \/ HasKey(content, T("name")))
    THEN "native"
  ELSE "unknown"

detect_format(content) ==
  IF content.k = "str" /\ TextHas(content.s, {"fc"})
     /\ TextHas(content.s, {"inv", "invfrag"})
    THEN "xml"
  ELSE IF content.k = "list" /\ Len(content.xs) > 0
    THEN LET first == content.xs[1] IN
         IF first.k = "dict" /\ (HasKey(first, T("function")) \/ HasKey(first, T("name")))
           THEN "native" ELSE "unknown"
  ELSE IF content.k = "dict"
          /\ (HasKey(content, T("function")) \/ HasKey(content, T("name")))
    THEN "native"
  ELSE "unknown"

\* ----------------------------------------------------------------- adapting

\* mutant: strict mode ignored for an explicit native preference
adapt_for_model_nostrict(normalized_calls, model_supports_native, prefer_format) ==
  IF prefer_format = "native" THEN to_native_format(normalized_calls)
  ELSE IF prefer_format = "xml" THEN to_xml_format(normalized_calls)
  ELSE IF config.auto_detect /\ model_supports_native /\ config.prefer_native
    THEN to_native_format(normalized_calls)
  ELSE to_xml_format(normalized_calls)

\* prefer_format is "native", "xml" or "none" (None)
adapt_for_model(normalized_calls, model_supports_native, prefer_format) ==
  IF prefer_format = "native" /\ (model_supports_native \/ ~config.strict_mode)
    THEN to_native_format(normalized_calls)
  ELSE IF prefer_format = "xml" THEN to_xml_format(normalized_calls)
  ELSE IF config.auto_detect
    THEN IF model_supports_native /\ config.prefer_native
           THEN to_native_format(normalized_calls)
           ELSE to_xml_format(normalized_calls)
  ELSE to_xml_format(normalized_calls)

\* ------------------------------------------------------------------ inputs

SeqsUpTo(S, n) == UNION {[1..m -> S] : m \in 0..n}

\* parameter value texts as a model writes them inside <parameter>
V_num == <<Num(5)>>
V_true == <<Kw("true")>>
V_false == <<Kw("false")>>
V_null == <<Kw("null")>>
V_plain == T("abc")
V_quoted == <<StrLit(T("abc"))>>
V_quotednum == <<StrLit(<<Num(5)>>)>>
V_object == <<LBrace, StrLit(T("r")), Colon, Num(1), RBrace>>
V_array == <<LBrack, Num(1), Comma, Ws, Kw("true"), RBrack>>
V_padded == <<Ws, Num(7), Ws>>
V_empty == <<>>

ValueTexts ==
  {V_num, V_true, V_false, V_null, V_plain, V_quoted, V_quotednum,
   V_object, V_array, V_padded, V_empty}

XmlParam(name, value) == [name |-> name, value |-> value]
XmlInvoke(name, params) == [name |-> name, params |-> params]

\* parameters that are combined into longer lists
ParamPool ==
  {XmlParam(T("p"), V_num), XmlParam(T("q"), V_true),
   XmlParam(T("p"), V_plain), XmlParam(T("q"), V_object)}

\* one <invoke> with its <parameter> children, as the wire shape of the spec
GenInvokes ==
  {XmlInvoke(T("a"), <<XmlParam(T("p"), v)>>) : v \in ValueTexts}
  \cup {XmlInvoke(n, ps) : n \in {T("a"), T("b")}, ps \in SeqsUpTo(ParamPool, MaxParams)}

\* invokes that are combined into blocks of several
InvokePool ==
  {XmlInvoke(T("a"), <<XmlParam(T("p"), V_num)>>),
   XmlInvoke(T("b"), <<XmlParam(T("q"), V_true)>>),
   XmlInvoke(T("a"), <<>>)}

\* a <function_calls> block: its invokes in document order
GenBlocks ==
  {<<inv>> : inv \in GenInvokes}
  \cup (SeqsUpTo(InvokePool, MaxInvokes) \ SeqsUpTo(InvokePool, 1))

RenderParam(pa) == <<ParOpen(pa.name)>> \o pa.value \o <<ParClose>>

RenderInvoke(inv, sep) ==
  Join(<<(<<InvOpen(inv.name)>>)>>
       \o [i \in 1..Len(inv.params) |-> RenderParam(inv.params[i])]
       \o <<(<<InvClose>>)>>, sep)

\* the text of a block, its elements separated by sep
RenderBlock(block, sep) ==
  Join(<<(<<FcOpen>>)>>
       \o [i \in 1..Len(block) |-> RenderInvoke(block[i], sep)]
       \o <<(<<FcClose>>)>>, sep)

Layouts == {<<>>, <<Ws>>}

\* a well-formed document: one block or two, with prose around them
GenDocs ==
  {<<b>> : b \in GenBlocks}
  \cup {<<<<i1>>, <<i2>>>> : i1 \in InvokePool, i2 \in InvokePool}

RenderDoc(doc, sep) ==
  T("Calling") \o Join([i \in 1..Len(doc) |-> RenderBlock(doc[i], sep)], <<Ws>>)

WellFormedXml == {[doc |-> d, text |-> RenderDoc(d, sep)] : d \in GenDocs, sep \in Layouts}

MalformedXml ==
  {T("just") \o <<Ws>> \o T("text"),
   <<FcOpen, FcClose>>,
   <<FcOpen, InvOpen(T("a")), InvClose>>,
   <<InvOpen(T("a")), InvClose>>,
   <<FcOpen, InvFrag, InvClose, FcClose>>,
   <<FcOpen, InvOpen(<<>>), InvClose, FcClose>>,
   <<FcOpen, InvOpen(T("a")), InvClose, Word("junk"), FcClose>>,
   <<FcOpen, InvOpen(T("a")), InvClose, Word("junk"), FcClose,
     FcOpen, InvOpen(T("b")), ParOpen(T("p")), Num(1), ParClose, InvClose, FcClose>>,
   <<FcOpen, InvOpen(T("a")), ParOpen(T("p")), Num(1), InvClose, FcClose>>,
   <<StrLit(<<FcOpen>>), InvFrag>>}

XmlInputs == {PyStr(w.text) : w \in WellFormedXml} \cup {PyStr(t) : t \in MalformedXml}

\* the fields of a native record; Absent leaves the key out
Absent == [k |-> "absent"]
NameOptions == {Absent, PyStr(T("a")), PyStr(T("b")), PyStr(<<>>), PyNone}
IdOptions == {Absent, PyStr(T("id1")), PyStr(<<>>)}

A_json_object == <<LBrace, StrLit(T("p")), Colon, Ws, Num(1), RBrace>>
A_json_nested ==
  <<LBrace, StrLit(T("p")), Colon, LBrack, Num(1), Comma, Kw("true"), RBrack, Comma,
    StrLit(T("q")), Colon, LBrace, StrLit(T("r")), Colon, Kw("null"), RBrace, Comma,
    StrLit(T("p")), Colon, StrLit(T("abc")), RBrace>>
A_json_invalid == <<LBrace, Word("oops")>>

MappingArguments ==
  {PyDict(<<>>),
   PyDict(<<Entry(T("p"), PyInt(1))>>),
   PyDict(<<Entry(T("p"), PyBool(TRUE)), Entry(T("q"), PyStr(T("abc")))>>),
   PyDict(<<Entry(T("q"), PyDict(<<Entry(T("r"), PyList(<<PyInt(1), PyNone>>))>>))>>)}

SerializedArguments == {PyStr(A_json_object), PyStr(A_json_nested)}

ArgumentOptions ==
  MappingArguments \cup SerializedArguments
  \cup {Absent, PyStr(<<>>), PyStr(A_json_invalid), PyStr(<<Num(5)>>),
        PyNone, PyList(<<PyInt(1)>>)}

\* a dict of the fields that are not Absent, in the order given
Fields(pairs) ==
  LET keep == SelectSeq(pairs, LAMBDA e : e.val # Absent) IN PyDict(keep)

OpenAIRecord(id, name, arguments) ==
  Fields(<<Entry(T("id"), id), Entry(T("type"), PyStr(T("function"))),
           Entry(T("function"),
                 Fields(<<Entry(T("name"), name), Entry(T("arguments"), arguments)>>))>>)

DirectRecord(id, name, arguments) ==
  Fields(<<Entry(T("id"), id), Entry(T("name"), name), Entry(T("arguments"), arguments)>>)

OddRecords ==
  {PyDict(<<Entry(T("type"), PyStr(T("function")))>>),
   PyDict(<<Entry(T("type"), PyStr(T("other"))),
            Entry(T("function"), PyDict(<<Entry(T("name"), PyStr(T("a")))>>))>>),
   PyDict(<<Entry(T("function"), PyDict(<<Entry(T("name"), PyStr(T("a")))>>))>>),
   PyDict(<<Entry(T("type"), PyStr(T("function"))), Entry(T("function"), PyStr(T("a")))>>),
   PyDict(<<Entry(T("type"), PyStr(T("function"))), Entry(T("function"), PyStr(T("a"))),
            Entry(T("name"), PyStr(T("b"))), Entry(T("arguments"), PyDict(<<>>))>>),
   PyDict(<<Entry(T("foo"), PyInt(1))>>)}

NativeRecords ==
  {OpenAIRecord(i, n, a) : i \in IdOptions, n \in NameOptions, a \in ArgumentOptions}
  \cup {DirectRecord(i, n, a) : i \in IdOptions, n \in NameOptions, a \in ArgumentOptions}
  \cup OddRecords

\* the elements that batches of several are built from
BatchPool ==
  {OpenAIRecord(PyStr(T("id1")), PyStr(T("a")), PyStr(A_json_object)),
   DirectRecord(Absent, PyStr(T("b")), PyDict(<<Entry(T("p"), PyInt(1))>>)),
   DirectRecord(Absent, PyStr(T("a")), PyDict(<<Entry(T("q"), PyStr(T("abc")))>>)),
   DirectRecord(Absent, PyStr(T("a")), PyStr(A_json_invalid)),
   DirectRecord(PyStr(<<>>), PyStr(T("a")), PyDict(<<Entry(T("p"), PyInt(1))>>)),
   OpenAIRecord(Absent, Absent, PyStr(A_json_object)),
   PyDict(<<Entry(T("foo"), PyInt(1))>>),
   PyDict(<<>>),
   PyInt(5)}

NativeInputs ==
  NativeRecords
  \cup {PyList(<<r>>) : r \in NativeRecords}
  \cup {PyList(b) : b \in SeqsUpTo(BatchPool, MaxBatch)}

OtherInputs == {PyNone, PyInt(0), PyInt(5), PyBool(TRUE), PyStr(<<>>)}

RawInputs == XmlInputs \cup NativeInputs \cup OtherInputs

HashSeeds == {1, 2}

\* ------------------------------------------------- model registries: values

\* registrations made on the two registries after their construction
MaxRegister == 2

\* w.lower() for the words the names below are written in: the words with a capital
\* letter, every other word being in lower case
LowerWord(w) ==
  CASE w = "A" -> "a"
    [] w = "B" -> "b"
    [] w = "P" -> "p"
    [] w = "Claude Haiku 4.5" -> "claude haiku 4.5"
    [] w = "Claude Opus 4" -> "claude opus 4"
    [] w = "Claude Sonnet 4" -> "claude sonnet 4"
    [] w = "Claude Sonnet 4.5" -> "claude sonnet 4.5"
    [] w = "Gemini 1.5 Flash" -> "gemini 1.5 flash"
    [] w = "Gemini 1.5 Pro" -> "gemini 1.5 pro"
    [] w = "Gemini 2.0 Flash" -> "gemini 2.0 flash"
    [] w = "all-MiniLM-L6-v2" -> "all-minilm-l6-v2"
    [] w = "sentence-transformers/all-MiniLM-L6-v2" -> "sentence-transformers/all-minilm-l6-v2"
    [] OTHER -> w

\* s.lower(): every letter of the text is lower-cased, nothing else changes
Lower(s) ==
  [i \in 1..Len(s) |-> IF s[i].t = "word" THEN Word(LowerWord(s[i].w)) ELSE s[i]]

\* prices are in thousandths of a dollar
ModelPricing(input_cost_per_million_tokens, output_cost_per_million_tokens) ==
  [k |-> "pricing",
   input_cost_per_million_tokens |-> input_cost_per_million_tokens,
   output_cost_per_million_tokens |-> output_cost_per_million_tokens]

\* a Model of core.ai_models, with the fields the registry sets
Model(id, name, provider, aliases, context_window, capabilities, pricing, tier_availability, priority, recommended, enabled) ==
  [k |-> "model", id |-> id, name |-> name, provider |-> provider, aliases |-> aliases,
   context_window |-> context_window, capabilities |-> capabilities, pricing |-> pricing,
   tier_availability |-> tier_availability, priority |-> priority,
   recommended |-> recommended, enabled |-> enabled]

EmbeddingPricing(cost_per_million_tokens) ==
  [k |-> "embedding_pricing", cost_per_million_tokens |-> cost_per_million_tokens]

\* an EmbeddingModel after __post_init__: tier_availability None becomes
\* ["free", "paid"] for a local model and ["paid"] otherwise
EmbeddingModel(id, name, provider, dimensions, pricing, aliases, enabled, recommended, priority, tier_availability, is_local) ==
  [k |-> "embedding_model", id |-> id, name |-> name, provider |-> provider,
   dimensions |-> dimensions, pricing |-> pricing, aliases |-> aliases,
   enabled |-> enabled, recommended |-> recommended, priority |-> priority,
   tier_availability |->
     IF tier_availability = PyNone
       THEN (IF is_local THEN PyList(<<"free", "paid">>) ELSE PyList(<<"paid">>))
       ELSE tier_availability,
   is_local |-> is_local]

\* tier_availability, a list of tier names
Tiers(ts) == PyList(ts)

\* a registry object: its two dicts, in insertion order
RegistryObject(models, aliases) == [models |-> models, aliases |-> aliases]

\* self._models = {} and self._aliases = {}
EmptyRegistry == RegistryObject(PyDict(<<>>), PyDict(<<>>))

\* what a method call leaves behind: the object after it and the value returned
Outcome(self, result) == [self |-> self, result |-> result]

\* list(d.values())
DictValues(d) == [i \in 1..Len(d.es) |-> d.es[i].val]

\* x in xs, for a list xs
ListHas(xs, x) == \E i \in 1..Len(xs) : xs[i] = x

\* ------------------------------------------------------------ ModelRegistry

\* for alias in model.aliases: self._aliases[alias.lower()] = model.id
RECURSIVE register_aliases(_, _, _, _)
register_aliases(es, model_aliases, i, id) ==
  IF i > Len(model_aliases) THEN es
  ELSE register_aliases(DictSet(es, Lower(model_aliases[i]), PyStr(id)),
                        model_aliases, i + 1, id)

\* ModelRegistry.register: the catalog entry, the lower-cased id, then each alias
register(self, model) ==
  RegistryObject(
    PyDict(DictSet(self.models.es, model.id, model)),
    PyDict(register_aliases(DictSet(self.aliases.es, Lower(model.id), PyStr(model.id)),
                            model.aliases, 1, model.id)))

\* mutant: the guard for None and "" left out
get_unguarded(self, model_id) ==
  IF model_id.k # "str" THEN Exc
  ELSE IF HasKey(self.models, model_id.s) THEN DictGet(self.models, model_id.s, PyNone)
  ELSE IF HasKey(self.aliases, Lower(model_id.s))
    THEN DictGet(self.models, DictGet(self.aliases, Lower(model_id.s), PyNone).s, PyNone)
    ELSE PyNone

\* ModelRegistry.get
get(self, model_id) ==
  IF ~Truthy(model_id) THEN PyNone
  ELSE IF model_id.k # "str" THEN Exc
  ELSE IF HasKey(self.models, model_id.s) THEN DictGet(self.models, model_id.s, PyNone)
  ELSE LET model_id_lower == Lower(model_id.s) IN
    IF HasKey(self.aliases, model_id_lower)
      THEN LET actual_id == DictGet(self.aliases, model_id_lower, PyNone) IN
           DictGet(self.models, actual_id.s, PyNone)
      ELSE PyNone

\* mutant: the enabled_only filter left out
get_all_unfiltered(self, enabled_only) == DictValues(self.models)

\* ModelRegistry.get_all: a new list of the catalog's values, in the dict's order
get_all(self, enabled_only) ==
  LET models == DictValues(self.models) IN
  IF enabled_only THEN SelectSeq(models, LAMBDA m : m.enabled) ELSE models

get_by_tier(self, tier, enabled_only) ==
  SelectSeq(get_all(self, enabled_only), LAMBDA m : ListHas(m.tier_availability.xs, tier))

get_by_provider(self, provider, enabled_only) ==
  SelectSeq(get_all(self, enabled_only), LAMBDA m : m.provider = provider)

get_by_capability(self, capability, enabled_only) ==
  SelectSeq(get_all(self, enabled_only), LAMBDA m : ListHas(m.capabilities, capability))

resolve_model_id(self, model_id) ==
  LET model == get(self, model_id) IN
  IF model = Exc THEN Exc ELSE IF Truthy(model) THEN PyStr(model.id) ELSE PyNone

get_aliases(self, model_id) ==
  LET model == get(self, model_id) IN
  IF model = Exc THEN Exc ELSE IF Truthy(model) THEN PyList(model.aliases) ELSE PyList(<<>>)

\* mutant: the flag written on every descriptor of the catalog
set_enabled_all(self, id, value) ==
  RegistryObject(
    PyDict([i \in 1..Len(self.models.es) |->
              Entry(self.models.es[i].key, [self.models.es[i].val EXCEPT !.enabled = value])]),
    self.aliases)

\* model.enabled = value on the object the catalog holds under id
set_enabled(self, id, value) ==
  RegistryObject(
    PyDict([i \in 1..Len(self.models.es) |->
              IF self.models.es[i].key = id
                THEN Entry(id, [self.models.es[i].val EXCEPT !.enabled = value])
                ELSE self.models.es[i]]),
    self.aliases)

enable_model(self, model_id) ==
  LET model == get(self, model_id) IN
  IF model = Exc THEN Outcome(self, Exc)
  ELSE IF Truthy(model) THEN Outcome(set_enabled(self, model.id, TRUE), PyBool(TRUE))
  ELSE Outcome(self, PyBool(FALSE))

disable_model(self, model_id) ==
  LET model == get(self, model_id) IN
  IF model = Exc THEN Outcome(self, Exc)
  ELSE IF Truthy(model) THEN Outcome(set_enabled(self, model.id, FALSE), PyBool(TRUE))
  ELSE Outcome(self, PyBool(FALSE))

get_context_window(self, model_id, default) ==
  LET model == get(self, model_id) IN
  IF model = Exc THEN Exc ELSE IF Truthy(model) THEN PyInt(model.context_window) ELSE default

get_pricing(self, model_id) ==
  LET model == get(self, model_id) IN
  IF model = Exc THEN Exc ELSE IF Truthy(model) THEN model.pricing ELSE PyNone

\* ModelRegistry.to_legacy_format: the five tables, each in the order of its listing
to_legacy_format(self) ==
  LET models == get_all(self, TRUE)
      priced == SelectSeq(models, LAMBDA m : Truthy(m.pricing))
      ids(ms) == [i \in 1..Len(ms) |-> ms[i].id]
  IN [MODELS |-> [i \in 1..Len(models) |->
                    Entry(models[i].id,
                          [pricing |-> models[i].pricing,
                           context_window |-> models[i].context_window,
                           tier_availability |-> models[i].tier_availability])],
      HARDCODED_MODEL_PRICES |-> [i \in 1..Len(priced) |->
                                    Entry(priced[i].id, priced[i].pricing)],
      MODEL_CONTEXT_WINDOWS |-> [i \in 1..Len(models) |->
                                   Entry(models[i].id, models[i].context_window)],
      FREE_TIER_MODELS |-> ids(get_by_tier(self, "free", TRUE)),
      PAID_TIER_MODELS |-> ids(get_by_tier(self, "paid", TRUE))]

\* --------------------------------------------------- EmbeddingModelRegistry

\* EmbeddingModelRegistry.register
embedding_register(self, model) ==
  RegistryObject(
    PyDict(DictSet(self.models.es, model.id, model)),
    PyDict(register_aliases(DictSet(self.aliases.es, Lower(model.id), PyStr(model.id)),
                            model.aliases, 1, model.id)))

\* EmbeddingModelRegistry.get
embedding_get(self, model_id) ==
  IF ~Truthy(model_id) THEN PyNone
  ELSE IF model_id.k # "str" THEN Exc
  ELSE IF HasKey(self.models, model_id.s) THEN DictGet(self.models, model_id.s, PyNone)
  ELSE LET model_id_lower == Lower(model_id.s) IN
    IF HasKey(self.aliases, model_id_lower)
      THEN LET actual_id == DictGet(self.aliases, model_id_lower, PyNone) IN
           DictGet(self.models, actual_id.s, PyNone)
      ELSE PyNone

\* EmbeddingModelRegistry.get_all
embedding_get_all(self, enabled_only) ==
  LET models == DictValues(self.models) IN
  IF enabled_only THEN SelectSeq(models, LAMBDA m : m.enabled) ELSE models

\* mutant: the list sorted ascending and then reversed, which turns the ties around
RECURSIVE sort_by_priority_reversed(_)
sort_by_priority_reversed(models) ==
  IF models = <<>> THEN <<>>
  ELSE LET rest == sort_by_priority_reversed(SubSeq(models, 1, Len(models) - 1))
           m == models[Len(models)]
           before == SelectSeq(rest, LAMBDA x : x.priority > m.priority)
           after == SelectSeq(rest, LAMBDA x : x.priority <= m.priority)
       IN before \o <<m>> \o after

\* models.sort(key=lambda m: m.priority, reverse=True): the sort is stable, and
\* with reverse the elements of equal priority keep their order
RECURSIVE sort_by_priority(_)
sort_by_priority(models) ==
  IF models = <<>> THEN <<>>
  ELSE LET rest == sort_by_priority(SubSeq(models, 1, Len(models) - 1))
           m == models[Len(models)]
           before == SelectSeq(rest, LAMBDA x : x.priority >= m.priority)
           after == SelectSeq(rest, LAMBDA x : x.priority < m.priority)
       IN before \o <<m>> \o after

\* mutant: the sort applied to the catalog itself
get_default_model_self_sorted(self) ==
  RegistryObject(
    PyDict(LET sorted == sort_by_priority(DictValues(self.models)) IN
           [i \in 1..Len(sorted) |-> Entry(sorted[i].id, sorted[i])]),
    self.aliases)

\* the registry after get_default_model: the list it sorts is the new list that
\* get_all built, so the catalog keeps its order
get_default_model_self(self) == self

\* EmbeddingModelRegistry.get_default_model
get_default_model(self) ==
  LET models == embedding_get_all(self, TRUE) IN
  IF models = <<>> THEN Outcome(self, PyNone)
  ELSE Outcome(get_default_model_self(self), sort_by_priority(models)[1])

\* raise ValueError(...)
ValueError == [k |-> "exc", type |-> "ValueError"]

\* mutant: the default returned without the check that there is one
get_embedding_model_unchecked(self, model_id) ==
  LET model == IF Truthy(model_id) THEN embedding_get(self, model_id) ELSE PyNone IN
  IF Truthy(model_id) /\ Truthy(model) THEN model ELSE get_default_model(self).result

\* get_embedding_model, on the module's embedding_registry
get_embedding_model(self, model_id) ==
  LET model == IF Truthy(model_id) THEN embedding_get(self, model_id) ELSE PyNone
      default == get_default_model(self).result
  IN IF model.k = "exc" THEN model
     ELSE IF Truthy(model_id) /\ Truthy(model) THEN model
     ELSE IF ~Truthy(default) THEN ValueError
     ELSE default

\* ------------------------------------------- registries: the construction

\* entries of the model list of an Ollama answer that the discovery walks
MaxEntries == 2

\* core.utils.config as the constructors read it, and what the Ollama server answers.
\* ANTHROPIC_API_KEY is "unset" (None, empty or at most 20 characters), "long" (more
\* than 20 characters) or "sk-ant" (more than 20, starting with "sk-ant-"); the
\* other keys are TRUE when set and long enough for the test made of them
Config(local, anthropic_api_key, gemini_api_key, openai_api_key, ollama_api_base, response) ==
  [local |-> local, ANTHROPIC_API_KEY |-> anthropic_api_key,
   GEMINI_API_KEY |-> gemini_api_key, OPENAI_API_KEY |-> openai_api_key,
   OLLAMA_API_BASE |-> ollama_api_base, response |-> response]

\* requests.get raised: the connection was refused or timed out
ConnectionError == [raised |-> TRUE]

\* an answer with its status code; json is what response.json() returns, Exc when
\* the body is not JSON
Response(status_code, json) ==
  [raised |-> FALSE, status_code |-> status_code, json |-> json]

SHOULD_USE_ANTHROPIC(cfg) == cfg.local /\ cfg.ANTHROPIC_API_KEY = "sk-ant"

is_local(cfg) == cfg.local

\* f"ollama/{name}"
Ollama(name) == <<Word("ollama/")>> \o name

\* the patterns of the discovery that occur in a word of a model name
PatternsIn(w) ==
  CASE w = "llama3.3" -> {"llama3"}
    [] w = "llava" -> {"llava"}
    [] w = "qwen2.5-coder" -> {"qwen"}
    [] w = "nomic-embed-text" -> {"nomic-embed", "nomic"}
    [] w = "mxbai-embed-large" -> {"mxbai-embed", "mxbai"}
    [] OTHER -> {}

\* pattern in s, for one of those patterns: none of them holds a ":"
Contains(s, pattern) ==
  \E i \in 1..Len(s) : s[i].t = "word" /\ pattern \in PatternsIn(s[i].w)

\* any(pattern in s for pattern in patterns)
ContainsAny(s, patterns) == \E pattern \in patterns : Contains(s, pattern)

\* model_name.split(":")[0] if ":" in model_name else model_name
model_base(model_name) ==
  IF \E i \in 1..Len(model_name) : model_name[i] = Colon
    THEN SubSeq(model_name, 1,
                (CHOOSE i \in 1..Len(model_name) :
                   /\ model_name[i] = Colon
                   /\ \A j \in 1..(i - 1) : model_name[j] # Colon) - 1)
    ELSE model_name

\* f"{model_display_name} (Local)", model_display_name being
\* model_base.replace("-", " ").title(), kept as the text it is made from
display_name(base) == <<[t |-> "title", s |-> base], Word(" (Local)")>>

vision_models ==
  {"llava", "qwen", "qwen2-vl", "qwen3-vl", "bakllava", "moondream", "vision",
   "llama3.2-vision"}

large_context_models == {"qwen", "llama3", "gemma2", "mixtral", "llama3.2"}

embedding_model_patterns == {"nomic-embed", "mxbai-embed", "all-minilm", "bge"}

\* the three descriptors registered whatever the keys are: on Bedrock, or on the
\* Anthropic API under their Anthropic ids when SHOULD_USE_ANTHROPIC
bedrock_models(cfg) ==
  <<
    Model(IF SHOULD_USE_ANTHROPIC(cfg) THEN T("anthropic/claude-haiku-4-5")
              ELSE <<Word("bedrock/converse/arn"), Colon, Word("aws"), Colon,
                   Word("bedrock"), Colon, Word("us-west-2"), Colon,
                   Word("935064898258"), Colon,
                   Word("application-inference-profile/heol2zyy5v48")>>,
          T("Haiku 4.5"), "anthropic",
          <<T("claude-haiku-4.5"), T("anthropic/claude-haiku-4.5"), T("Claude Haiku 4.5"),
            <<Word("global.anthropic.claude-haiku-4-5-20251001-v1"), Colon, Word("0")>>,
            <<Word("bedrock/global.anthropic.claude-haiku-4-5-20251001-v1"), Colon,
             Word("0")>>,
            <<Word("bedrock/converse/arn"), Colon, Word("aws"), Colon, Word("bedrock"),
             Colon, Word("us-west-2"), Colon, Word("935064898258"), Colon,
             Word("application-inference-profile/heol2zyy5v48")>>>>,
          200000, <<"chat", "function_calling", "vision">>,
          ModelPricing(1000, 5000), Tiers(<<"paid">>), 102, TRUE, TRUE),
    Model(IF SHOULD_USE_ANTHROPIC(cfg) THEN T("anthropic/claude-sonnet-4-5-20250929")
              ELSE <<Word("bedrock/converse/arn"), Colon, Word("aws"), Colon,
                   Word("bedrock"), Colon, Word("us-west-2"), Colon,
                   Word("935064898258"), Colon,
                   Word("application-inference-profile/few7z4l830xh")>>,
          T("Sonnet 4.5"), "anthropic",
          <<T("claude-sonnet-4.5"), T("anthropic/claude-sonnet-4.5"), T("Claude Sonnet 4.5"),
            T("claude-sonnet-4-5-20250929"),
            <<Word("global.anthropic.claude-sonnet-4-5-20250929-v1"), Colon, Word("0")>>,
            <<Word("arn"), Colon, Word("aws"), Colon, Word("bedrock"), Colon,
             Word("us-west-2"), Colon, Word("935064898258"), Colon,
             Word("inference-profile/global.anthropic.claude-sonnet-4-5-20250929-v1"),
             Colon, Word("0")>>,
            <<Word("bedrock/global.anthropic.claude-sonnet-4-5-20250929-v1"), Colon,
             Word("0")>>,
            <<Word("bedrock/converse/arn"), Colon, Word("aws"), Colon, Word("bedrock"),
             Colon, Word("us-west-2"), Colon, Word("935064898258"), Colon,
             Word("application-inference-profile/few7z4l830xh")>>>>,
          1000000, <<"chat", "function_calling", "vision", "thinking">>,
          ModelPricing(3000, 15000), Tiers(<<"paid">>), 101, TRUE, TRUE),
    Model(IF SHOULD_USE_ANTHROPIC(cfg) THEN T("anthropic/claude-sonnet-4-20250514")
              ELSE <<Word("bedrock/converse/arn"), Colon, Word("aws"), Colon,
                   Word("bedrock"), Colon, Word("us-west-2"), Colon,
                   Word("935064898258"), Colon,
                   Word("application-inference-profile/tyj1ks3nj9qf")>>,
          T("Sonnet 4"), "anthropic",
          <<T("claude-sonnet-4"), T("Claude Sonnet 4"), T("claude-sonnet-4-20250514"),
            <<Word("global.anthropic.claude-sonnet-4-20250514-v1"), Colon, Word("0")>>,
            <<Word("arn"), Colon, Word("aws"), Colon, Word("bedrock"), Colon,
             Word("us-west-2"), Colon, Word("935064898258"), Colon,
             Word("inference-profile/global.anthropic.claude-sonnet-4-20250514-v1"),
             Colon, Word("0")>>,
            <<Word("bedrock/global.anthropic.claude-sonnet-4-20250514-v1"), Colon,
             Word("0")>>,
            <<Word("bedrock/converse/arn"), Colon, Word("aws"), Colon, Word("bedrock"),
             Colon, Word("us-west-2"), Colon, Word("935064898258"), Colon,
             Word("application-inference-profile/tyj1ks3nj9qf")>>>>,
          1000000, <<"chat", "function_calling", "vision", "thinking">>,
          ModelPricing(3000, 15000), Tiers(<<"paid">>), 100, TRUE, TRUE)
  >>

\* the descriptors of the direct Anthropic API
anthropic_models ==
  <<
    Model(T("anthropic/claude-haiku-4-5-20251001"),
          T("Haiku 4.5 (Direct)"), "anthropic",
          <<T("claude-haiku-4.5-direct"), T("anthropic/claude-haiku-4.5-20251001")>>,
          200000, <<"chat", "function_calling", "vision">>,
          ModelPricing(1000, 5000), Tiers(<<"free", "paid">>), 102, TRUE, TRUE),
    Model(T("anthropic/claude-sonnet-4-5-20250929"),
          T("Sonnet 4.5 (Direct)"), "anthropic",
          <<T("claude-sonnet-4.5-direct")>>,
          1000000, <<"chat", "function_calling", "vision", "thinking">>,
          ModelPricing(3000, 15000), Tiers(<<"paid">>), 101, TRUE, TRUE),
    Model(T("anthropic/claude-sonnet-4-20250514"),
          T("Sonnet 4 (Direct)"), "anthropic",
          <<T("claude-sonnet-4-direct")>>,
          1000000, <<"chat", "function_calling", "vision", "thinking">>,
          ModelPricing(3000, 15000), Tiers(<<"paid">>), 100, TRUE, TRUE),
    Model(T("anthropic/claude-opus-4-20250514"),
          T("Opus 4"), "anthropic",
          <<T("claude-opus-4"), T("opus-4"), T("Claude Opus 4")>>,
          1000000, <<"chat", "function_calling", "vision", "thinking">>,
          ModelPricing(15000, 75000), Tiers(<<"paid">>), 103, FALSE, TRUE),
    Model(T("anthropic/claude-3-5-sonnet-20241022"),
          T("Claude 3.5 Sonnet"), "anthropic",
          <<T("claude-3.5-sonnet"), T("claude-3-5-sonnet"), T("sonnet-3.5")>>,
          200000, <<"chat", "function_calling", "vision">>,
          ModelPricing(3000, 15000), Tiers(<<"paid">>), 90, FALSE, TRUE)
  >>

\* the descriptors of Google Gemini
gemini_models ==
  <<
    Model(T("gemini/gemini-2.0-flash-exp"),
          T("Gemini 2.0 Flash"), "google",
          <<T("gemini-2.0-flash"), T("gemini-2.0-flash-exp"), T("Gemini 2.0 Flash")>>,
          1000000, <<"chat", "function_calling", "vision">>,
          ModelPricing(0, 0), Tiers(<<"free", "paid">>), 110, TRUE, TRUE),
    Model(T("gemini/gemini-1.5-flash"),
          T("Gemini 1.5 Flash"), "google",
          <<T("gemini-1.5-flash"), T("Gemini 1.5 Flash")>>,
          1000000, <<"chat", "function_calling", "vision">>,
          ModelPricing(75, 300), Tiers(<<"free", "paid">>), 95, FALSE, TRUE),
    Model(T("gemini/gemini-1.5-pro"),
          T("Gemini 1.5 Pro"), "google",
          <<T("gemini-1.5-pro"), T("Gemini 1.5 Pro")>>,
          2000000, <<"chat", "function_calling", "vision">>,
          ModelPricing(1250, 5000), Tiers(<<"paid">>), 94, FALSE, TRUE)
  >>

\* the Ollama descriptors registered after the discovery, enabled in local mode;
\* recommended is left to the default of Model where the call does not pass it
ollama_models(cfg) ==
  <<
    Model(<<Word("ollama/"), Word("llama3"), Colon, Word("instruct")>>,
          T("Llama 3 Instruct"), "ollama",
          <<<<Word("llama3"), Colon, Word("instruct")>>, T("ollama_llama3_instruct")>>,
          8192, <<"chat", "function_calling">>,
          ModelPricing(0, 0), Tiers(<<"free", "paid">>), 81, TRUE, is_local(cfg)),
    Model(<<Word("ollama/"), Word("llama3.3")>>,
          T("Llama 3.3 70B"), "ollama",
          <<T("llama3.3"), T("ollama_llama3.3")>>,
          128000, <<"chat", "function_calling">>,
          ModelPricing(0, 0), Tiers(<<"free", "paid">>), 80, FALSE, is_local(cfg)),
    Model(<<Word("ollama/"), Word("qwen2.5-coder")>>,
          T("Qwen 2.5 Coder"), "ollama",
          <<T("qwen2.5-coder"), T("ollama_qwen2.5-coder")>>,
          32768, <<"chat", "function_calling">>,
          ModelPricing(0, 0), Tiers(<<"free", "paid">>), 79, FALSE, is_local(cfg)),
    Model(<<Word("ollama/"), Word("deepseek-r1"), Colon, Word("70b")>>,
          T("DeepSeek R1 70B"), "ollama",
          <<<<Word("deepseek-r1"), Colon, Word("70b")>>, T("ollama_deepseek-r1")>>,
          64000, <<"chat", "function_calling">>,
          ModelPricing(0, 0), Tiers(<<"free", "paid">>), 78, FALSE, is_local(cfg))
  >>

\* the descriptors of the OpenAI embeddings
openai_embedding_models ==
  <<
    EmbeddingModel(T("openai/text-embedding-3-small"),
          T("OpenAI Embedding Small"), "openai", 1536,
          EmbeddingPricing(20),
          <<T("text-embedding-3-small"), T("embedding-small"), T("openai-small")>>,
          TRUE, TRUE, 100, Tiers(<<"free", "paid">>), FALSE),
    EmbeddingModel(T("openai/text-embedding-3-large"),
          T("OpenAI Embedding Large"), "openai", 3072,
          EmbeddingPricing(130),
          <<T("text-embedding-3-large"), T("embedding-large"), T("openai-large")>>,
          TRUE, FALSE, 95, Tiers(<<"paid">>), FALSE),
    EmbeddingModel(T("openai/text-embedding-ada-002"),
          T("OpenAI Ada v2"), "openai", 1536,
          EmbeddingPricing(100),
          <<T("text-embedding-ada-002"), T("ada-002")>>,
          TRUE, FALSE, 80, Tiers(<<"paid">>), FALSE)
  >>

\* the descriptor of the Google Gemini embedding
gemini_embedding_models ==
  <<
    EmbeddingModel(T("google/text-embedding-004"),
          T("Gemini Text Embedding"), "google", 768,
          EmbeddingPricing(0),
          <<T("text-embedding-004"), T("gemini-embedding")>>,
          TRUE, TRUE, 110, Tiers(<<"free", "paid">>), FALSE)
  >>

\* the local Sentence Transformers descriptors
sentence_transformers_models ==
  <<
    EmbeddingModel(T("sentence-transformers/all-MiniLM-L6-v2"),
          T("MiniLM L6 (Local)"), "sentence_transformers", 384,
          EmbeddingPricing(0),
          <<T("all-MiniLM-L6-v2"), T("minilm"), T("local-small")>>,
          TRUE, TRUE, 105, Tiers(<<"free", "paid">>), TRUE),
    EmbeddingModel(T("sentence-transformers/all-mpnet-base-v2"),
          T("MPNet Base (Local)"), "sentence_transformers", 768,
          EmbeddingPricing(0),
          <<T("all-mpnet-base-v2"), T("mpnet"), T("local-medium")>>,
          TRUE, FALSE, 90, Tiers(<<"free", "paid">>), TRUE),
    EmbeddingModel(T("sentence-transformers/multi-qa-mpnet-base-dot-v1"),
          T("Multi-QA MPNet (Local)"), "sentence_transformers", 768,
          EmbeddingPricing(0),
          <<T("multi-qa-mpnet-base-dot-v1"), T("qa-mpnet")>>,
          TRUE, FALSE, 85, Tiers(<<"free", "paid">>), TRUE)
  >>

\* the descriptor the discovery registers for a model the server lists
discovered_model(model_name) ==
  LET vision == ContainsAny(Lower(model_name), vision_models)
  IN Model(Ollama(model_name), display_name(model_base(model_name)), "ollama",
           <<model_name, model_base(model_name), Ollama(model_base(model_name))>>,
           IF ContainsAny(Lower(model_name), large_context_models) THEN 128000 ELSE 4096,
           IF vision THEN <<"chat", "vision", "function_calling">>
                     ELSE <<"chat", "function_calling">>,
           ModelPricing(0, 0), Tiers(<<"free", "paid">>),
           IF vision THEN 105 ELSE 85,
           Contains(Lower(model_name), "qwen3-vl") \/ Contains(Lower(model_name), "llama3"),
           TRUE)

\* the loop of _register_ollama_models from entry i on. An entry that is no dict, or
\* whose name is no string, raises inside the loop: the except clause of the
\* function ends the discovery there, after the registrations already made
RECURSIVE register_discovered(_, _, _)
register_discovered(self, models_data, i) ==
  IF i > Len(models_data) THEN self
  ELSE IF models_data[i].k # "dict" THEN self
  ELSE LET model_name == DictGet(models_data[i], T("name"), PyStr(<<>>))
       IN IF ~Truthy(model_name) THEN register_discovered(self, models_data, i + 1)
          ELSE IF model_name.k # "str" THEN self
          ELSE register_discovered(register(self, discovered_model(model_name.s)),
                                   models_data, i + 1)

\* the data the model discovery goes on with: None when the request raised, the
\* status is not 200 or the body is not JSON
ollama_data(response) ==
  IF response.raised THEN PyNone
  ELSE IF response.status_code # 200 THEN PyNone
  ELSE IF response.json = Exc THEN PyNone
  ELSE response.json

\* mutant: a failed request is not caught
_register_ollama_models_uncaught(self, cfg) ==
  LET data == ollama_data(cfg.response)
  IN IF cfg.response.raised THEN Outcome(self, Exc)
     ELSE IF ~Truthy(data) THEN Outcome(self, PyNone)
     ELSE IF data.k # "dict" THEN Outcome(self, PyNone)
     ELSE LET models_data == DictGet(data, T("models"), PyList(<<>>))
          IN IF ~Truthy(models_data) THEN Outcome(self, PyNone)
             ELSE IF models_data.k # "list" THEN Outcome(self, PyNone)
             ELSE Outcome(register_discovered(self, models_data.xs, 1), PyNone)

\* ModelRegistry._register_ollama_models: every exception is caught and logged
_register_ollama_models(self, cfg) ==
  LET data == ollama_data(cfg.response)
  IN IF ~Truthy(data) THEN Outcome(self, PyNone)
     ELSE IF data.k # "dict" THEN Outcome(self, PyNone)
     ELSE LET models_data == DictGet(data, T("models"), PyList(<<>>))
          IN IF ~Truthy(models_data) THEN Outcome(self, PyNone)
             ELSE IF models_data.k # "list" THEN Outcome(self, PyNone)
             ELSE Outcome(register_discovered(self, models_data.xs, 1), PyNone)

\* self.register(...) for each descriptor of a block, in the order of the source
RECURSIVE register_each(_, _, _)
register_each(self, models, i) ==
  IF i > Len(models) THEN self
  ELSE register_each(register(self, models[i]), models, i + 1)

\* the registrations of _initialize_models that come before the discovery
models_before_discovery(cfg) ==
  bedrock_models(cfg)
    \o (IF cfg.ANTHROPIC_API_KEY # "unset" THEN anthropic_models ELSE <<>>)
    \o (IF cfg.GEMINI_API_KEY THEN gemini_models ELSE <<>>)

\* ModelRegistry._initialize_models
_initialize_models(self, cfg) ==
  LET before == register_each(self, models_before_discovery(cfg), 1)
      found == IF cfg.OLLAMA_API_BASE THEN _register_ollama_models(before, cfg)
               ELSE Outcome(before, PyNone)
  IN IF found.result = Exc THEN found
     ELSE Outcome(register_each(found.self, ollama_models(cfg), 1), PyNone)

\* ModelRegistry(): the two empty dicts, then _initialize_models
ModelRegistry(cfg) == _initialize_models(EmptyRegistry, cfg)

\* the descriptor the discovery registers for an embedding model the server lists
discovered_embedding_model(model_name) ==
  EmbeddingModel(Ollama(model_name), display_name(model_base(model_name)), "ollama",
                 IF Contains(Lower(model_name), "nomic") THEN 768
                 ELSE IF Contains(Lower(model_name), "mxbai") THEN 1024
                 ELSE IF Contains(Lower(model_name), "bge") THEN 1024
                 ELSE 768,
                 EmbeddingPricing(0),
                 <<model_name, model_base(model_name), Ollama(model_base(model_name))>>,
                 TRUE, Contains(Lower(model_name), "nomic"), 108,
                 Tiers(<<"free", "paid">>), TRUE)

\* the loop of _register_ollama_embedding_models from entry i on: only the names
\* with an embedding pattern are registered
RECURSIVE register_discovered_embeddings(_, _, _)
register_discovered_embeddings(self, models_data, i) ==
  IF i > Len(models_data) THEN self
  ELSE IF models_data[i].k # "dict" THEN self
  ELSE LET model_name == DictGet(models_data[i], T("name"), PyStr(<<>>))
       IN IF ~Truthy(model_name) THEN register_discovered_embeddings(self, models_data, i + 1)
          ELSE IF model_name.k # "str" THEN self
          ELSE IF ~ContainsAny(Lower(model_name.s), embedding_model_patterns)
            THEN register_discovered_embeddings(self, models_data, i + 1)
          ELSE register_discovered_embeddings(
                 embedding_register(self, discovered_embedding_model(model_name.s)),
                 models_data, i + 1)

\* EmbeddingModelRegistry._register_ollama_embedding_models: the request that fails
\* returns; data.get on a body that is no dict raises and is caught
_register_ollama_embedding_models(self, cfg) ==
  IF cfg.response.raised THEN Outcome(self, PyNone)
  ELSE IF cfg.response.status_code # 200 THEN Outcome(self, PyNone)
  ELSE IF cfg.response.json = Exc THEN Outcome(self, PyNone)
  ELSE IF cfg.response.json.k # "dict" THEN Outcome(self, PyNone)
  ELSE LET models_data == DictGet(cfg.response.json, T("models"), PyList(<<>>))
       IN IF ~Truthy(models_data) THEN Outcome(self, PyNone)
          ELSE IF models_data.k # "list" THEN Outcome(self, PyNone)
          ELSE Outcome(register_discovered_embeddings(self, models_data.xs, 1), PyNone)

RECURSIVE embedding_register_each(_, _, _)
embedding_register_each(self, models, i) ==
  IF i > Len(models) THEN self
  ELSE embedding_register_each(embedding_register(self, models[i]), models, i + 1)

\* the registrations of the embedding registry that come before the discovery
embedding_models_before_discovery(cfg) ==
  (IF cfg.OPENAI_API_KEY THEN openai_embedding_models ELSE <<>>)
    \o (IF cfg.GEMINI_API_KEY THEN gemini_embedding_models ELSE <<>>)

\* EmbeddingModelRegistry._initialize_models
embedding_initialize_models(self, cfg) ==
  LET before == embedding_register_each(self, embedding_models_before_discovery(cfg), 1)
      found == IF cfg.OLLAMA_API_BASE THEN _register_ollama_embedding_models(before, cfg)
               ELSE Outcome(before, PyNone)
  IN IF found.result = Exc THEN found
     ELSE Outcome(embedding_register_each(found.self, sentence_transformers_models, 1),
                  PyNone)

\* EmbeddingModelRegistry(): the two empty dicts, then _initialize_models
EmbeddingModelRegistry(cfg) == embedding_initialize_models(EmptyRegistry, cfg)

\* ------------------------------------------------------------ ModelSelector

\* a (is_valid, error_msg) tuple
Pair(is_valid, error_msg) ==
  [k |-> "tuple", is_valid |-> is_valid, error_msg |-> error_msg]

\* what a call of the selector gives: the value it returns, Exc when it raises, and
\* the collaborators it has consulted on the way
Answer(value, asked) == [value |-> value, asked |-> asked]

\* f"Model '{model_id}'{rest}"
AboutModel(model_id, rest) ==
  PyStr(<<Word("Model '")>> \o PyStrOf(model_id) \o <<Word(rest)>>)

\* model_manager.validate_model: the id or alias names a descriptor of the registry,
\* and the descriptor is enabled
manager_validate_model(self, model_id) ==
  LET model == get(self, model_id) IN
  IF model = Exc THEN Exc
  ELSE IF ~Truthy(model) THEN Pair(FALSE, AboutModel(model_id, "' not found"))
  ELSE IF ~model.enabled THEN Pair(FALSE, AboutModel(model_id, "' is disabled"))
  ELSE Pair(TRUE, PyStr(<<>>))

\* model_manager.resolve_model_id: the canonical id the registry resolves to
manager_resolve_model_id(self, model_id) == resolve_model_id(self, model_id)

\* model_manager.list_available_models: the descriptors of the registry offered
\* under a tier, every tier for tier "None" (tier=None); the disabled ones only
\* when include_disabled
list_available_models(self, tier, include_disabled) ==
  LET models == get_all(self, ~include_disabled) IN
  IF tier = "None" THEN models
  ELSE SelectSeq(models, LAMBDA m : ListHas(m.tier_availability.xs, tier))

\* mutant: every subscription counts as paid, whatever its tier is called
tier_name_any_subscription(subscription_info) ==
  IF subscription_info = Exc THEN Exc
  ELSE IF subscription_info.k # "dict" THEN Exc
  ELSE IF ~Truthy(DictGet(subscription_info, T("subscription"), PyNone))
    THEN PyStr(T("free"))
  ELSE PyStr(T("paid"))

\* the tier name get_available_models derives from the answer of
\* subscription_service.get_subscription, Exc when deriving it raises
tier_name(subscription_info) ==
  IF subscription_info = Exc THEN Exc
  ELSE IF subscription_info.k # "dict" THEN Exc
  ELSE LET subscription == DictGet(subscription_info, T("subscription"), PyNone)
           tier_info == DictGet(subscription_info, T("tier"), PyDict(<<>>))
       IN IF ~Truthy(subscription) THEN PyStr(T("free"))
          ELSE IF ~Truthy(tier_info) THEN PyStr(T("free"))
          ELSE IF tier_info.k # "dict" THEN Exc
          ELSE IF /\ DictGet(tier_info, T("name"), PyNone) # PyStr(T("free"))
                  /\ DictGet(tier_info, T("name"), PyNone) # PyStr(T("none"))
            THEN PyStr(T("paid"))
          ELSE PyStr(T("free"))

\* mutant: the fallback lists what the caller asked for, the disabled models too
get_available_models_fallback_as_asked(cfg, self, include_disabled) ==
  IF cfg.local
    THEN Answer(PyList(list_available_models(self, "None", include_disabled)), {"registry"})
  ELSE IF tier_name(cfg.subscription) = Exc
    THEN Answer(PyList(list_available_models(self, "free", include_disabled)),
                {"entitlement", "registry"})
  ELSE IF tier_name(cfg.subscription) = PyStr(T("paid"))
    THEN Answer(PyList(list_available_models(self, "paid", include_disabled)),
                {"entitlement", "registry"})
  ELSE Answer(PyList(list_available_models(self, "free", include_disabled)),
              {"entitlement", "registry"})

\* ModelSelector.get_available_models: every model in local mode, the models of
\* the caller's tier otherwise, those of the free tier when anything raised
get_available_models(cfg, self, include_disabled) ==
  IF cfg.local
    THEN Answer(PyList(list_available_models(self, "None", include_disabled)), {"registry"})
  ELSE IF tier_name(cfg.subscription) = Exc
    THEN Answer(PyList(list_available_models(self, "free", FALSE)),
                {"entitlement", "registry"})
  ELSE IF tier_name(cfg.subscription) = PyStr(T("paid"))
    THEN Answer(PyList(list_available_models(self, "paid", include_disabled)),
                {"entitlement", "registry"})
  ELSE Answer(PyList(list_available_models(self, "free", include_disabled)),
              {"entitlement", "registry"})

\* mutant: the test for an empty id left out
validate_model_unguarded(self, model_id) ==
  LET checked == manager_validate_model(self, model_id) IN
  IF checked = Exc THEN Answer(Exc, {"registry"})
  ELSE IF ~checked.is_valid THEN Answer(Pair(FALSE, checked.error_msg), {"registry"})
  ELSE Answer(Pair(TRUE, PyStr(<<>>)), {"registry"})

\* ModelSelector.validate_model
validate_model(self, model_id) ==
  IF ~Truthy(model_id)
    THEN Answer(Pair(FALSE, PyStr(T("Model ID cannot be empty"))), {})
  ELSE LET checked == manager_validate_model(self, model_id) IN
       IF checked = Exc THEN Answer(Exc, {"registry"})
       ELSE IF ~checked.is_valid THEN Answer(Pair(FALSE, checked.error_msg), {"registry"})
       ELSE Answer(Pair(TRUE, PyStr(<<>>)), {"registry"})

\* [m['id'] for m in available_models]
IdsOf(available_models) ==
  [i \in 1..Len(available_models) |-> PyStr(available_models[i].id)]

\* ModelSelector.validate_model_for_user
validate_model_for_user(cfg, self, model_id) ==
  LET basic == validate_model(self, model_id) IN
  IF basic.value = Exc THEN basic
  ELSE IF ~basic.value.is_valid THEN Answer(Pair(FALSE, basic.value.error_msg), basic.asked)
  ELSE IF cfg.local THEN Answer(Pair(TRUE, PyStr(<<>>)), basic.asked)
  ELSE LET available_models == get_available_models(cfg, self, FALSE)
           resolved_model_id == manager_resolve_model_id(self, model_id)
           asked == basic.asked \cup available_models.asked
       IN IF available_models.value = Exc \/ resolved_model_id = Exc
            THEN Answer(Pair(FALSE, PyStr(T("Failed to validate model availability: "))), asked)
          ELSE IF ~ListHas(IdsOf(available_models.value.xs), resolved_model_id)
            THEN Answer(Pair(FALSE, AboutModel(model_id,
                                               "' is not available for your subscription tier")),
                        asked)
          ELSE Answer(Pair(TRUE, PyStr(<<>>)), asked)

\* ------------------------------------------------- registries: the callers

\* a name spelled letter by letter
Name(letters) == [i \in 1..Len(letters) |-> Word(letters[i])]

n_pa == Name(<<"p", "/", "a">>)
n_PA == Name(<<"P", "/", "A">>)
n_a == Name(<<"a">>)
n_A == Name(<<"A">>)
n_b == Name(<<"b">>)
n_B == Name(<<"B">>)
n_x == Name(<<"x">>)

\* descriptors a caller registers on the ModelRegistry: an alias written in another
\* case, a second registration of an id, ids and aliases that meet ignoring case
ModelPool ==
  {Model(n_pa, T("PA"), "anthropic", <<n_A>>, 200000, <<"chat", "vision">>,
         ModelPricing(1000, 5000), Tiers(<<"paid">>), 50, TRUE, TRUE),
   Model(n_pa, T("PA direct"), "anthropic", <<>>, 100000, <<"chat">>,
         PyNone, Tiers(<<"free", "paid">>), 10, FALSE, TRUE),
   Model(n_b, T("B"), "ollama", <<n_a>>, 64000, <<"chat", "function_calling">>,
         ModelPricing(0, 0), Tiers(<<"free", "paid">>), 50, FALSE, FALSE),
   Model(n_a, T("A"), "google", <<n_B>>, 100000, <<"chat">>,
         ModelPricing(0, 0), Tiers(<<"free", "paid">>), 99, TRUE, TRUE),
   Model(n_A, T("A upper"), "google", <<>>, 200000, <<"chat", "vision">>,
         ModelPricing(1000, 5000), Tiers(<<"paid">>), 10, FALSE, FALSE)}

\* descriptors a caller registers on the EmbeddingModelRegistry
EmbeddingPool ==
  {EmbeddingModel(n_pa, T("PA"), "openai", 1536, EmbeddingPricing(20), <<n_A>>,
                  TRUE, TRUE, 10, Tiers(<<"free", "paid">>), FALSE),
   EmbeddingModel(n_pa, T("PA large"), "openai", 3072, EmbeddingPricing(130), <<n_b>>,
                  TRUE, FALSE, 50, PyNone, FALSE),
   EmbeddingModel(n_b, T("B"), "ollama", 768, EmbeddingPricing(0), <<n_a>>,
                  TRUE, FALSE, 50, PyNone, TRUE),
   EmbeddingModel(n_a, T("A"), "google", 768, EmbeddingPricing(0), <<>>,
                  FALSE, TRUE, 99, Tiers(<<"free", "paid">>), FALSE),
   EmbeddingModel(n_B, T("B upper"), "sentence_transformers", 384, EmbeddingPricing(0), <<>>,
                  TRUE, FALSE, 50, PyNone, TRUE)}

\* the ids and aliases a caller asks for: None, "", and names in either case
IdArgs == {PyNone, PyStr(<<>>), PyStr(n_pa), PyStr(n_PA), PyStr(n_a), PyStr(n_A),
           PyStr(n_b), PyStr(n_B), PyStr(n_x)}

\* the ids and aliases an administrator toggles: None, an id in another case, an
\* alias, an id as registered, and a name no descriptor has
ToggleArgs == {PyNone, PyStr(n_PA), PyStr(n_A), PyStr(n_b), PyStr(n_x)}

\* no registry in use: the process only runs the tool-call adapter
NoEnv == [local |-> FALSE]

NoHistory == [registrations |-> 0, model_names |-> {}, embedding_names |-> {}]

\* the names a registration adds: the descriptor's id and aliases, lower-cased
RegisteredNames(model) ==
  {Lower(model.id)} \cup {Lower(model.aliases[i]) : i \in 1..Len(model.aliases)}

\* no call in progress
Idle == [pc |-> "idle"]

NoThreads == [writer |-> Idle, reader |-> Idle]

\* line 22: _ollama_cache = {"tags": None, "timestamp": 0}
EmptyCache == [tags |-> PyNone, timestamp |-> 0]

RegistryIdle ==
  /\ env = NoEnv
  /\ registry = EmptyRegistry
  /\ embedding_registry = EmptyRegistry
  /\ history = NoHistory
  /\ threads = NoThreads
  /\ _ollama_cache = EmptyCache
  /\ clock = 0
  /\ ret = [op |-> "init"]

\* ---------------------------------------------------------- state machine

\* the adapter after construction, and the payload the caller holds
Init ==
  /\ config = DefaultConfig
  /\ hashSeed \in HashSeeds
  /\ raw_input \in RawInputs
  /\ calls = PyNone
  /\ last = [op |-> "init"]
  /\ RegistryIdle

NormalizeToolCalls ==
  /\ last.op = "init"
  /\ calls' = normalize_tool_calls(raw_input)
  /\ last' = [op |-> "normalize_tool_calls"]
  /\ UNCHANGED <<config, hashSeed, raw_input>>
  /\ UNCHANGED registryVars

\* the caller holds a list of normalized calls and has not used it yet
Normalized == last.op = "normalize_tool_calls" /\ calls # Exc

ToNativeFormat ==
  /\ Normalized
  /\ last' = [op |-> "to_native_format", result |-> to_native_format(calls)]
  /\ UNCHANGED <<config, hashSeed, raw_input, calls>>
  /\ UNCHANGED registryVars

ToXmlFormat ==
  /\ Normalized
  /\ last' = [op |-> "to_xml_format", result |-> to_xml_format(calls)]
  /\ UNCHANGED <<config, hashSeed, raw_input, calls>>
  /\ UNCHANGED registryVars

DetectFormat ==
  /\ last.op = "normalize_tool_calls"
  /\ last' = [op |-> "detect_format", result |-> detect_format(raw_input)]
  /\ UNCHANGED <<config, hashSeed, raw_input, calls>>
  /\ UNCHANGED registryVars

PreferFormats == {"native", "xml", "none"}

AdaptForModel ==
  \E model_supports_native \in BOOLEAN, prefer_format \in PreferFormats :
    /\ Normalized
    /\ last' = [op |-> "adapt_for_model",
                model_supports_native |-> model_supports_native,
                prefer_format |-> prefer_format,
                result |-> adapt_for_model(calls, model_supports_native, prefer_format)]
    /\ UNCHANGED <<config, hashSeed, raw_input, calls>>
    /\ UNCHANGED registryVars

\* the emitted payload is given back to normalize_tool_calls
NormalizeEmitted ==
  /\ last.op \in {"to_native_format", "to_xml_format"}
  /\ last.result # Exc
  /\ last' = [op |-> "normalize_emitted", emitter |-> last.op, emitted |-> last.result,
              result |-> normalize_tool_calls(last.result)]
  /\ UNCHANGED <<config, hashSeed, raw_input, calls>>
  /\ UNCHANGED registryVars

Next ==
  \/ NormalizeToolCalls
  \/ ToNativeFormat
  \/ ToXmlFormat
  \/ DetectFormat
  \/ AdaptForModel
  \/ NormalizeEmitted

Spec == Init /\ [][Next]_vars

\* every AdapterConfig a caller can construct
Configs ==
  {AdapterConfig(en, ex, pn, ad, sm) :
     en \in BOOLEAN, ex \in BOOLEAN, pn \in BOOLEAN, ad \in BOOLEAN, sm \in BOOLEAN}

\* the payloads tried under every configuration
AdaptInputs ==
  {PyNone,
   PyStr(RenderDoc(<<<<XmlInvoke(T("a"), <<XmlParam(T("p"), V_num)>>)>>>>, <<>>)),
   PyStr(RenderDoc(<<<<XmlInvoke(T("b"), <<XmlParam(T("p"), V_plain),
                                           XmlParam(T("q"), V_object)>>)>>>>, <<Ws>>)),
   OpenAIRecord(PyStr(T("id1")), PyStr(T("a")), PyStr(A_json_object)),
   DirectRecord(Absent, PyStr(T("a")), PyStr(<<Num(5)>>)),
   PyList(<<DirectRecord(Absent, PyStr(T("b")), PyDict(<<Entry(T("p"), PyInt(1))>>)),
            OpenAIRecord(Absent, PyStr(T("a")), PyStr(A_json_nested))>>)}

\* an adapter constructed with any configuration (get_tool_adapter(config))
InitCfg ==
  /\ config \in Configs
  /\ hashSeed \in HashSeeds
  /\ raw_input \in AdaptInputs
  /\ calls = PyNone
  /\ last = [op |-> "init"]
  /\ RegistryIdle

SpecCfg == InitCfg /\ [][Next]_vars

\* ------------------------------------------------ registries: state machine

\* the two registries when their dicts have just been created; the registrations
\* of the constructors are register calls like those that follow
InitReg ==
  /\ config = DefaultConfig
  /\ hashSeed = 1
  /\ raw_input = PyNone
  /\ calls = PyNone
  /\ last = [op |-> "init"]
  /\ RegistryIdle

\* the calls that only read a registry
QueryOps ==
  {"get", "resolve_model_id", "get_aliases", "get_all", "get_by_tier", "get_by_provider",
   "get_by_capability", "get_context_window", "get_pricing", "to_legacy_format",
   "embedding_get", "embedding_get_all", "get_default_model", "get_embedding_model",
   "validate_model", "validate_model_for_user", "get_available_models"}

\* a caller changes a registry between its queries, not within one: a write
\* follows the construction or another write
Writable == ret.op \notin QueryOps

\* a caller makes a query after a write, or repeats the query it has just made
Askable(op, args) == Writable \/ (ret.op = op /\ ret.args = args)

Returned(op, args, result) == [op |-> op, args |-> args, result |-> result]

Register ==
  \E model \in ModelPool :
    /\ Writable
    /\ history.registrations < MaxRegister
    /\ registry' = register(registry, model)
    /\ history' = [history EXCEPT !.registrations = @ + 1,
                                  !.model_names = @ \cup RegisteredNames(model)]
    /\ ret' = [op |-> "register", args |-> <<model>>]
    /\ UNCHANGED <<env, embedding_registry>>
    /\ UNCHANGED <<adapterVars, threads, statusVars>>

RegisterEmbedding ==
  \E model \in EmbeddingPool :
    /\ Writable
    /\ history.registrations < MaxRegister
    /\ embedding_registry' = embedding_register(embedding_registry, model)
    /\ history' = [history EXCEPT !.registrations = @ + 1,
                                  !.embedding_names = @ \cup RegisteredNames(model)]
    /\ ret' = [op |-> "embedding_register", args |-> <<model>>]
    /\ UNCHANGED <<env, registry>>
    /\ UNCHANGED <<adapterVars, threads, statusVars>>

EnableModel ==
  \E model_id \in ToggleArgs :
    /\ Writable
    /\ registry' = enable_model(registry, model_id).self
    /\ ret' = Returned("enable_model", <<model_id>>, enable_model(registry, model_id).result)
    /\ UNCHANGED <<env, embedding_registry, history>>
    /\ UNCHANGED <<adapterVars, threads, statusVars>>

DisableModel ==
  \E model_id \in ToggleArgs :
    /\ Writable
    /\ registry' = disable_model(registry, model_id).self
    /\ ret' = Returned("disable_model", <<model_id>>, disable_model(registry, model_id).result)
    /\ UNCHANGED <<env, embedding_registry, history>>
    /\ UNCHANGED <<adapterVars, threads, statusVars>>

\* a call that returns result and assigns nothing
Query(op, args, result) ==
  /\ Askable(op, args)
  /\ ret' = Returned(op, args, result)
  /\ UNCHANGED <<env, registry, embedding_registry, history>>
  /\ UNCHANGED <<adapterVars, threads, statusVars>>

Get == \E model_id \in IdArgs : Query("get", <<model_id>>, get(registry, model_id))

ResolveModelId ==
  \E model_id \in IdArgs :
    Query("resolve_model_id", <<model_id>>, resolve_model_id(registry, model_id))

GetAliases ==
  \E model_id \in IdArgs : Query("get_aliases", <<model_id>>, get_aliases(registry, model_id))

\* the default of get_context_window
DefaultContextWindow == 31000

GetContextWindow ==
  \E model_id \in IdArgs :
    Query("get_context_window", <<model_id>>,
          get_context_window(registry, model_id, PyInt(DefaultContextWindow)))

GetPricing ==
  \E model_id \in IdArgs : Query("get_pricing", <<model_id>>, get_pricing(registry, model_id))

GetAll ==
  \E enabled_only \in BOOLEAN :
    Query("get_all", <<enabled_only>>, PyList(get_all(registry, enabled_only)))

GetByTier ==
  \E tier \in {"free", "paid"}, enabled_only \in BOOLEAN :
    Query("get_by_tier", <<tier, enabled_only>>,
          PyList(get_by_tier(registry, tier, enabled_only)))

GetByProvider ==
  \E provider \in {"anthropic", "ollama"}, enabled_only \in BOOLEAN :
    Query("get_by_provider", <<provider, enabled_only>>,
          PyList(get_by_provider(registry, provider, enabled_only)))

GetByCapability ==
  \E capability \in {"chat", "vision"}, enabled_only \in BOOLEAN :
    Query("get_by_capability", <<capability, enabled_only>>,
          PyList(get_by_capability(registry, capability, enabled_only)))

ToLegacyFormat == Query("to_legacy_format", <<>>, to_legacy_format(registry))

EmbeddingGet ==
  \E model_id \in IdArgs :
    Query("embedding_get", <<model_id>>, embedding_get(embedding_registry, model_id))

EmbeddingGetAll ==
  \E enabled_only \in BOOLEAN :
    Query("embedding_get_all", <<enabled_only>>,
          PyList(embedding_get_all(embedding_registry, enabled_only)))

GetDefaultModel ==
  /\ Askable("get_default_model", <<>>)
  /\ embedding_registry' = get_default_model(embedding_registry).self
  /\ ret' = Returned("get_default_model", <<>>, get_default_model(embedding_registry).result)
  /\ UNCHANGED <<env, registry, history>>
  /\ UNCHANGED <<adapterVars, threads, statusVars>>

GetEmbeddingModel ==
  \E model_id \in IdArgs :
    Query("get_embedding_model", <<model_id>>,
          get_embedding_model(embedding_registry, model_id))

NextReg ==
  \/ Register
  \/ RegisterEmbedding
  \/ EnableModel
  \/ DisableModel
  \/ Get
  \/ ResolveModelId
  \/ GetAliases
  \/ GetContextWindow
  \/ GetPricing
  \/ GetAll
  \/ GetByTier
  \/ GetByProvider
  \/ GetByCapability
  \/ ToLegacyFormat
  \/ EmbeddingGet
  \/ EmbeddingGetAll
  \/ GetDefaultModel
  \/ GetEmbeddingModel

SpecReg == InitReg /\ [][NextReg]_vars

\* ------------------------------------- registries: construction state machine

\* the names an Ollama server lists: one that a later static descriptor has as its
\* id, one with a tag, an embedding model
OllamaNames == {T("llama3.3"), <<Word("llava"), Colon, Word("13b")>>, T("nomic-embed-text")}

\* the entries of a model list: named ones, one without a name, one with an empty
\* name, one that is no object
ListEntries ==
  {PyDict(<<Entry(T("name"), PyStr(name))>>) : name \in OllamaNames}
    \cup {PyDict(<<>>), PyDict(<<Entry(T("name"), PyStr(<<>>))>>),
          PyStr(T("junk"))}

ModelLists == UNION {[1..n -> ListEntries] : n \in 0..MaxEntries}

\* what the server answers to GET /api/tags: nothing, an error status, a body that
\* is no JSON, JSON without a model list, and the model lists
Responses ==
  {ConnectionError, Response(500, PyNone), Response(200, Exc), Response(200, PyNone),
   Response(200, PyDict(<<>>)), Response(200, PyList(<<PyStr(T("junk"))>>)),
   Response(200, PyDict(<<Entry(T("models"), PyNone)>>)),
   Response(200, PyDict(<<Entry(T("models"), PyStr(T("junk")))>>))}
    \cup {Response(200, PyDict(<<Entry(T("models"), PyList(models_data))>>)) :
            models_data \in ModelLists}

\* the mode and keys of a process: production without keys, with every key, with
\* the Gemini key; local with an Anthropic key, with a long key of another form and
\* the Gemini key, with the OpenAI key
Keys ==
  {<<FALSE, "unset", FALSE, FALSE>>, <<FALSE, "sk-ant", TRUE, TRUE>>,
   <<FALSE, "unset", TRUE, FALSE>>, <<TRUE, "sk-ant", FALSE, FALSE>>,
   <<TRUE, "long", TRUE, FALSE>>, <<TRUE, "unset", FALSE, TRUE>>}

\* the configurations of a process: without OLLAMA_API_BASE no request is made
ProcessConfigs ==
  {Config(keys[1], keys[2], keys[3], keys[4], FALSE, ConnectionError) : keys \in Keys}
    \cup {Config(keys[1], keys[2], keys[3], keys[4], TRUE, response) :
            keys \in Keys, response \in Responses}

\* the process before the two module-level registries are created
InitDisc ==
  /\ config = DefaultConfig
  /\ hashSeed = 1
  /\ raw_input = PyNone
  /\ calls = PyNone
  /\ last = [op |-> "init"]
  /\ env \in ProcessConfigs
  /\ registry = EmptyRegistry
  /\ embedding_registry = EmptyRegistry
  /\ history = NoHistory
  /\ threads = NoThreads
  /\ _ollama_cache = EmptyCache
  /\ clock = 0
  /\ ret = [op |-> "init"]

\* the lower-cased names a registry has taken: the alias table never loses a key
Taken(self) == {self.aliases.es[i].key : i \in 1..Len(self.aliases.es)}

\* registry = ModelRegistry(), at the import of core.ai_models.registry
Construct ==
  /\ registry = EmptyRegistry
  /\ LET made == ModelRegistry(env)
     IN /\ registry' = made.self
        /\ history' = [history EXCEPT !.model_names = Taken(made.self)]
        /\ ret' = Returned("ModelRegistry", <<>>, made.result)
  /\ UNCHANGED <<env, embedding_registry>>
  /\ UNCHANGED <<adapterVars, threads, statusVars>>

\* embedding_registry = EmbeddingModelRegistry(), at the import of its module
ConstructEmbedding ==
  /\ embedding_registry = EmptyRegistry
  /\ LET made == EmbeddingModelRegistry(env)
     IN /\ embedding_registry' = made.self
        /\ history' = [history EXCEPT !.embedding_names = Taken(made.self)]
        /\ ret' = Returned("EmbeddingModelRegistry", <<>>, made.result)
  /\ UNCHANGED <<env, registry>>
  /\ UNCHANGED <<adapterVars, threads, statusVars>>

\* ids and aliases asked of the constructed ModelRegistry: static ones, one in
\* another case, one that only the discovery registers
StaticArgs ==
  {PyStr(T("anthropic/claude-sonnet-4-5-20250929")), PyStr(T("Claude Sonnet 4.5")),
   PyStr(Ollama(T("llama3.3"))), PyStr(T("llama3.3")), PyStr(T("llava"))}

\* ids and aliases asked of the constructed EmbeddingModelRegistry
StaticEmbeddingArgs ==
  {PyStr(T("minilm")), PyStr(T("gemini-embedding")), PyStr(T("nomic-embed-text"))}

\* the imports are over when a caller looks a name up
Imported == registry # EmptyRegistry /\ embedding_registry # EmptyRegistry

Lookup ==
  /\ Imported
  /\ \E model_id \in StaticArgs : Query("get", <<model_id>>, get(registry, model_id))

EmbeddingLookup ==
  /\ Imported
  /\ \E model_id \in StaticEmbeddingArgs :
       Query("embedding_get", <<model_id>>, embedding_get(embedding_registry, model_id))

NextDisc ==
  \/ Construct
  \/ ConstructEmbedding
  \/ Lookup
  \/ EmbeddingLookup

SpecDisc == InitDisc /\ [][NextDisc]_vars

\* ----------------------------------------------- selector: state machine

\* a subscription record and the tier records that come with it
ASubscription == PyDict(<<Entry(T("id"), PyStr(T("sub_1")))>>)

TierInfo(name) == PyDict(<<Entry(T("name"), PyStr(T(name)))>>)

\* what subscription_service.get_subscription answers: it raises, returns None,
\* reports no subscription, a subscription of tier free, none or pro, a
\* subscription without its tier
SubscriptionAnswers ==
  {Exc, PyNone, PyDict(<<Entry(T("subscription"), PyNone)>>),
   PyDict(<<Entry(T("subscription"), ASubscription), Entry(T("tier"), TierInfo("free"))>>),
   PyDict(<<Entry(T("subscription"), ASubscription), Entry(T("tier"), TierInfo("none"))>>),
   PyDict(<<Entry(T("subscription"), ASubscription), Entry(T("tier"), TierInfo("pro"))>>),
   PyDict(<<Entry(T("subscription"), ASubscription)>>)}

\* ENV_MODE and the caller's subscription: local mode asks for no subscription
SelectorEnvs ==
  {[local |-> TRUE, subscription |-> Exc]}
    \cup {[local |-> FALSE, subscription |-> answer] : answer \in SubscriptionAnswers}

InitSel ==
  /\ config = DefaultConfig
  /\ hashSeed = 1
  /\ raw_input = PyNone
  /\ calls = PyNone
  /\ last = [op |-> "init"]
  /\ env \in SelectorEnvs
  /\ registry = EmptyRegistry
  /\ embedding_registry = EmptyRegistry
  /\ history = NoHistory
  /\ threads = NoThreads
  /\ _ollama_cache = EmptyCache
  /\ clock = 0
  /\ ret = [op |-> "init"]

ValidateModel ==
  \E model_id \in IdArgs :
    Query("validate_model", <<model_id>>, validate_model(registry, model_id))

ValidateModelForUser ==
  \E model_id \in IdArgs :
    Query("validate_model_for_user", <<model_id>>,
          validate_model_for_user(env, registry, model_id))

GetAvailableModels ==
  \E include_disabled \in BOOLEAN :
    Query("get_available_models", <<include_disabled>>,
          get_available_models(env, registry, include_disabled))

NextSel ==
  \/ Register
  \/ DisableModel
  \/ ValidateModel
  \/ ValidateModelForUser
  \/ GetAvailableModels

SpecSel == InitSel /\ [][NextSel]_vars

\* ------------------------------------------- threads inside a registry call
\*
\* The registries take no lock.  One thread writes (register, enable_model,
\* disable_model) and one thread reads (get, get_all, get_by_tier), each a
\* statement at a time; a dict operation or a field assignment is one step.  The
\* writes of several threads that toggle different descriptors come in the order
\* in which one writer can make them.

\* the writes made while one call of the reader is in progress
MaxOverlap == 2

\* mutant: the alias entries written before the catalog entry
register_step_aliases_first(self, model, step) ==
  IF step = 0
    THEN RegistryObject(self.models,
           PyDict(DictSet(self.aliases.es, Lower(model.id), PyStr(model.id))))
  ELSE IF step <= Len(model.aliases)
    THEN RegistryObject(self.models,
           PyDict(DictSet(self.aliases.es, Lower(model.aliases[step]), PyStr(model.id))))
    ELSE RegistryObject(PyDict(DictSet(self.models.es, model.id, model)), self.aliases)

\* the statements of register in the order of the code: step 0 is
\* self._models[model.id] = model, step 1 is self._aliases[model.id.lower()] = model.id,
\* step 1 + i is self._aliases[alias.lower()] = model.id for the i-th alias
register_step(self, model, step) ==
  IF step = 0
    THEN RegistryObject(PyDict(DictSet(self.models.es, model.id, model)), self.aliases)
  ELSE IF step = 1
    THEN RegistryObject(self.models,
           PyDict(DictSet(self.aliases.es, Lower(model.id), PyStr(model.id))))
    ELSE RegistryObject(self.models,
           PyDict(DictSet(self.aliases.es, Lower(model.aliases[step - 1]), PyStr(model.id))))

\* EmbeddingModelRegistry.register has the same statements in the same order
embedding_register_step(self, model, step) == register_step(self, model, step)

\* the number of statements of a register call
register_steps(model) == 2 + Len(model.aliases)

\* the locals of a call that has just started
NoLocals ==
  [model_id_lower |-> <<>>, actual_id |-> PyNone, models |-> <<>>, fresh |-> {},
   i |-> 0, out |-> <<>>]

\* a call of the reader: where it is, its locals, and what happened to the
\* registry it reads since the call started: the states the registry went
\* through, the ids whose flag was written, the number of writes, and how many
\* of them register made
Frame(op, args, self) ==
  [pc |-> "call", op |-> op, args |-> args, locals |-> NoLocals, result |-> PyNone,
   seen |-> {self}, toggled |-> {}, writes |-> 0, stored |-> 0]

At(f, pc, locals) == [f EXCEPT !.pc = pc, !.locals = locals]

Return(f, result) == [f EXCEPT !.pc = "return", !.result = result]

\* ModelRegistry.get, a statement at a time:
\*   "call"    if not model_id: return None;  if model_id in self._models:
\*   "hit"     return self._models[model_id]
\*   "miss"    model_id_lower = model_id.lower();  if model_id_lower in self._aliases:
\*   "alias"   actual_id = self._aliases[model_id_lower]
\*   "resolve" return self._models.get(actual_id)
get_step(self, f) ==
  LET model_id == f.args[1]
      locals == f.locals
  IN
  CASE f.pc = "call" ->
         IF ~Truthy(model_id) THEN Return(f, PyNone)
         ELSE IF model_id.k # "str" THEN Return(f, Exc)
         ELSE IF HasKey(self.models, model_id.s) THEN At(f, "hit", locals)
         ELSE At(f, "miss", locals)
    [] f.pc = "hit" -> Return(f, DictGet(self.models, model_id.s, Exc))
    [] f.pc = "miss" ->
         LET model_id_lower == Lower(model_id.s) IN
         IF HasKey(self.aliases, model_id_lower)
           THEN At(f, "alias", [locals EXCEPT !.model_id_lower = model_id_lower])
           ELSE Return(f, PyNone)
    [] f.pc = "alias" ->
         LET actual_id == DictGet(self.aliases, locals.model_id_lower, Exc) IN
         IF actual_id = Exc THEN Return(f, Exc)
         ELSE At(f, "resolve", [locals EXCEPT !.actual_id = actual_id])
    [] f.pc = "resolve" -> Return(f, DictGet(self.models, locals.actual_id.s, PyNone))

\* EmbeddingModelRegistry.get has the same statements
embedding_get_step(self, f) == get_step(self, f)

\* mutant: the comprehension keeps every object of the list, whatever its flag
get_all_step_unfiltered(self, f) ==
  LET enabled_only == f.args[Len(f.args)]
      locals == f.locals
  IN
  CASE f.pc = "call" ->
         LET models == DictValues(self.models) IN
         IF enabled_only
           THEN At(f, "filter", [locals EXCEPT !.models = models, !.i = 1])
           ELSE Return(f, PyList(models))
    [] f.pc = "filter" ->
         IF locals.i > Len(locals.models) THEN Return(f, PyList(locals.out))
         ELSE At(f, "filter",
                 [locals EXCEPT !.i = @ + 1,
                                !.out = Append(@, locals.models[locals.i])])

\* ModelRegistry.get_all, a statement at a time:
\*   "call"    models = list(self._models.values());  if enabled_only:
\*   "filter"  one turn of [m for m in models if m.enabled]: the flag of the
\*             i-th object of the list is read as it is now
\* The list holds the objects themselves: locals.models follows the flag of an
\* object for as long as the catalog holds that object (see Observed).  The
\* result shows each descriptor as the comprehension read it.
get_all_step(self, f) ==
  LET enabled_only == f.args[Len(f.args)]
      locals == f.locals
  IN
  CASE f.pc = "call" ->
         LET models == DictValues(self.models) IN
         IF enabled_only
           THEN At(f, "filter", [locals EXCEPT !.models = models, !.i = 1])
           ELSE Return(f, PyList(models))
    [] f.pc = "filter" ->
         IF locals.i > Len(locals.models) THEN Return(f, PyList(locals.out))
         ELSE LET m == locals.models[locals.i] IN
              At(f, "filter",
                 [locals EXCEPT !.i = @ + 1,
                                !.out = IF m.enabled THEN Append(@, m) ELSE @])

\* ModelRegistry.get_by_tier: get_all, then the tiers, which no call assigns
get_by_tier_step(self, f) ==
  LET g == get_all_step(self, f) IN
  IF g.pc = "return"
    THEN Return(g, PyList(SelectSeq(g.result.xs,
                                    LAMBDA m : ListHas(m.tier_availability.xs, f.args[1]))))
    ELSE g

\* the registry a call of the reader reads
ReadsEmbedding(f) == f.pc # "idle" /\ f.op = "embedding_get"

reader_step(f) ==
  CASE f.op = "get" -> get_step(registry, f)
    [] f.op = "embedding_get" -> embedding_get_step(embedding_registry, f)
    [] f.op = "get_all" -> get_all_step(registry, f)
    [] f.op = "get_by_tier" -> get_by_tier_step(registry, f)

\* model.enabled = value as the objects of a list see it: the object of the
\* catalog changes, an object the catalog has replaced since does not
SetEnabledIn(models, fresh, id, value) ==
  [i \in 1..Len(models) |->
     IF models[i].id = id /\ id \notin fresh
       THEN [models[i] EXCEPT !.enabled = value] ELSE models[i]]

\* what a write leaves in the frame of a reader at work on the registry self
Observed(f, self, kind, id, value) ==
  IF f.pc = "idle" THEN f
  ELSE IF kind = "toggle"
    THEN [f EXCEPT !.seen = @ \cup {self}, !.toggled = @ \cup {id}, !.writes = @ + 1,
                   !.locals.models = SetEnabledIn(@, f.locals.fresh, id, value)]
    ELSE [f EXCEPT !.seen = @ \cup {self}, !.writes = @ + 1, !.stored = @ + 1,
                   !.locals.fresh = IF kind = "catalog" THEN @ \cup {id} ELSE @]

\* the writes a reader's call has overlapped
Overlap(f) == IF f.pc = "idle" THEN 0 ELSE f.writes

MayWrite == Writable /\ Overlap(threads.reader) < MaxOverlap

\* the descriptors the writer registers: an enabled one with an alias, the same
\* id again without aliases, and a disabled one
ThreadPool == {m \in ModelPool : m.id \in {n_pa, n_b}}

ThreadEmbeddingPool == {m \in EmbeddingPool : m.id = n_pa}

\* the names the writer toggles: an id in the other case, and an id
ThreadToggleArgs == {PyStr(n_PA), PyStr(n_b)}

\* the names the reader looks up: an alias in the other case, and an id or alias
ThreadArgs == {PyStr(n_A), PyStr(n_b)}

InitThr ==
  /\ config = DefaultConfig
  /\ hashSeed = 1
  /\ raw_input = PyNone
  /\ calls = PyNone
  /\ last = [op |-> "init"]
  /\ RegistryIdle

\* the writer enters register
WriterRegister ==
  \E model \in ThreadPool :
    /\ Writable
    /\ threads.writer = Idle
    /\ history.registrations < MaxRegister
    /\ threads' = [threads EXCEPT !.writer =
                     [pc |-> "register", op |-> "register", model |-> model, step |-> 0]]
    /\ history' = [history EXCEPT !.registrations = @ + 1,
                                  !.model_names = @ \cup RegisteredNames(model)]
    /\ UNCHANGED <<env, registry, embedding_registry, ret>>
    /\ UNCHANGED <<adapterVars, statusVars>>

WriterRegisterEmbedding ==
  \E model \in ThreadEmbeddingPool :
    /\ Writable
    /\ threads.writer = Idle
    /\ history.registrations < MaxRegister
    /\ threads' = [threads EXCEPT !.writer =
                     [pc |-> "register", op |-> "embedding_register", model |-> model,
                      step |-> 0]]
    /\ history' = [history EXCEPT !.registrations = @ + 1,
                                  !.embedding_names = @ \cup RegisteredNames(model)]
    /\ UNCHANGED <<env, registry, embedding_registry, ret>>
    /\ UNCHANGED <<adapterVars, statusVars>>

\* the frame of the writer after a statement of register
AfterStep(w) ==
  IF w.step + 1 = register_steps(w.model) THEN Idle ELSE [w EXCEPT !.step = @ + 1]

WriteKind(w) == IF w.step = 0 THEN "catalog" ELSE "alias"

\* the next statement of ModelRegistry.register
WriterStore ==
  LET w == threads.writer IN
  /\ MayWrite
  /\ w.pc = "register" /\ w.op = "register"
  /\ registry' = register_step(registry, w.model, w.step)
  /\ threads' = [writer |-> AfterStep(w),
                 reader |-> IF ReadsEmbedding(threads.reader) THEN threads.reader
                            ELSE Observed(threads.reader, registry', WriteKind(w),
                                          w.model.id, FALSE)]
  /\ UNCHANGED <<env, embedding_registry, history, ret>>
  /\ UNCHANGED <<adapterVars, statusVars>>

\* the next statement of EmbeddingModelRegistry.register
WriterStoreEmbedding ==
  LET w == threads.writer IN
  /\ MayWrite
  /\ w.pc = "register" /\ w.op = "embedding_register"
  /\ embedding_registry' = embedding_register_step(embedding_registry, w.model, w.step)
  /\ threads' = [writer |-> AfterStep(w),
                 reader |-> IF ReadsEmbedding(threads.reader)
                              THEN Observed(threads.reader, embedding_registry',
                                            WriteKind(w), w.model.id, FALSE)
                              ELSE threads.reader]
  /\ UNCHANGED <<env, registry, history, ret>>
  /\ UNCHANGED <<adapterVars, statusVars>>

\* enable_model and disable_model up to "if model:": model = self.get(model_id)
WriterToggle ==
  \E model_id \in ThreadToggleArgs, value \in BOOLEAN :
    LET model == get(registry, model_id) IN
    /\ Writable
    /\ threads.writer = Idle
    /\ model # Exc
    /\ Truthy(model)
    /\ threads' = [threads EXCEPT !.writer =
                     [pc |-> "toggle", op |-> IF value THEN "enable_model" ELSE "disable_model",
                      id |-> model.id, value |-> value]]
    /\ UNCHANGED <<env, registry, embedding_registry, history, ret>>
    /\ UNCHANGED <<adapterVars, statusVars>>

\* model.enabled = True or False, and the return
WriterSetEnabled ==
  LET w == threads.writer IN
  /\ MayWrite
  /\ w.pc = "toggle"
  /\ registry' = set_enabled(registry, w.id, w.value)
  /\ threads' = [writer |-> Idle,
                 reader |-> IF ReadsEmbedding(threads.reader) THEN threads.reader
                            ELSE Observed(threads.reader, registry', "toggle", w.id, w.value)]
  /\ UNCHANGED <<env, embedding_registry, history, ret>>
  /\ UNCHANGED <<adapterVars, statusVars>>

\* the reader enters a call
Enter(op, args, self) ==
  /\ Writable
  /\ threads.reader = Idle
  /\ threads' = [threads EXCEPT !.reader = Frame(op, args, self)]
  /\ UNCHANGED <<env, registry, embedding_registry, history, ret>>
  /\ UNCHANGED <<adapterVars, statusVars>>

ReaderGet == \E model_id \in ThreadArgs : Enter("get", <<model_id>>, registry)

ReaderEmbeddingGet ==
  \E model_id \in ThreadArgs : Enter("embedding_get", <<model_id>>, embedding_registry)

ReaderGetAll == \E enabled_only \in BOOLEAN : Enter("get_all", <<enabled_only>>, registry)

ReaderGetByTier ==
  \E tier \in {"free", "paid"} : Enter("get_by_tier", <<tier, TRUE>>, registry)

\* the next statement of the reader's call; with the return, what the call saw
ReaderStep ==
  /\ threads.reader # Idle
  /\ LET f == reader_step(threads.reader) IN
     IF f.pc = "return"
       THEN /\ ret' = [op |-> f.op, args |-> f.args, result |-> f.result,
                       seen |-> f.seen, toggled |-> f.toggled, writes |-> f.writes,
                       stored |-> f.stored]
            /\ threads' = [threads EXCEPT !.reader = Idle]
       ELSE /\ threads' = [threads EXCEPT !.reader = f]
            /\ UNCHANGED ret
  /\ UNCHANGED <<env, registry, embedding_registry, history>>
  /\ UNCHANGED <<adapterVars, statusVars>>

NextThr ==
  \/ WriterRegister
  \/ WriterRegisterEmbedding
  \/ WriterStore
  \/ WriterStoreEmbedding
  \/ WriterToggle
  \/ WriterSetEnabled
  \/ ReaderGet
  \/ ReaderEmbeddingGet
  \/ ReaderGetAll
  \/ ReaderGetByTier
  \/ ReaderStep

SpecThr == InitThr /\ [][NextThr]_vars

\* ---------------------------------------------- models_api: the Ollama status

\* the seconds the clock runs on after the process has started
MaxElapsed == 124

\* the result of get_ollama_status: {"available": ..., "models": set of names}
Status(available, models) == [k |-> "status", available |-> available, models |-> models]

\* lines 53-59: the names of the entries walked so far, each with and without its
\* tag; raised when a statement raises (an entry without get, a name that is no
\* string)
RECURSIVE model_names(_, _)
model_names(models, i) ==
  IF i > Len(models) THEN [raised |-> FALSE, names |-> {}]
  ELSE LET model == models[i] IN
    IF model.k # "dict" THEN [raised |-> TRUE, names |-> {}]
    ELSE LET name == DictGet(model, T("name"), PyStr(<<>>))
             rest == model_names(models, i + 1)
         IN IF name.k # "str" \/ rest.raised THEN [raised |-> TRUE, names |-> {}]
            ELSE [raised |-> FALSE, names |-> {name.s, model_base(name.s)} \cup rest.names]

\* lines 45-65: the request and what is made of the answer; every exception is
\* caught, and result stays as line 37 set it
status_of(response) ==
  IF response.raised THEN Status(FALSE, {})
  ELSE IF response.status_code # 200 THEN Status(FALSE, {})
  ELSE LET data == response.json IN
    IF data = Exc THEN Status(FALSE, {})
    ELSE IF data.k # "dict" THEN Status(FALSE, {})
    ELSE LET models == DictGet(data, T("models"), PyList(<<>>)) IN
      IF models.k \in {"str", "dict"} /\ ~Truthy(models) THEN Status(TRUE, {})
      ELSE IF models.k # "list" THEN Status(FALSE, {})
      ELSE LET walked == model_names(models.xs, 1) IN
           IF walked.raised THEN Status(FALSE, {}) ELSE Status(TRUE, walked.names)

\* what a call of get_ollama_status leaves: the cache, the result, and whether
\* the server was asked
StatusOutcome(cache, result, contacted) ==
  [cache |-> cache, result |-> result, contacted |-> contacted]

\* mutant: a stored result is still returned when it is exactly 60 seconds old
get_ollama_status_at_60(cache, cfg, now, response) ==
  IF cache.tags # PyNone /\ (now - cache.timestamp) <= 60
    THEN StatusOutcome(cache, cache.tags, FALSE)
  ELSE IF ~cfg.OLLAMA_API_BASE
    THEN StatusOutcome([tags |-> Status(FALSE, {}), timestamp |-> now],
                       Status(FALSE, {}), FALSE)
    ELSE StatusOutcome([tags |-> status_of(response), timestamp |-> now],
                       status_of(response), TRUE)

\* models_api.get_ollama_status, called at time now; response is the server's
\* answer when it is asked
get_ollama_status(cache, cfg, now, response) ==
  IF cache.tags # PyNone /\ (now - cache.timestamp) < 60
    THEN StatusOutcome(cache, cache.tags, FALSE)
  ELSE IF ~cfg.OLLAMA_API_BASE
    THEN StatusOutcome([tags |-> Status(FALSE, {}), timestamp |-> now],
                       Status(FALSE, {}), FALSE)
    ELSE StatusOutcome([tags |-> status_of(response), timestamp |-> now],
                       status_of(response), TRUE)

\* what the server answers to GET /api/tags: nothing, an error status, a body that
\* is no JSON, JSON without a model list, a list that is None, an empty list, a
\* list of one tagged name, a list with an entry that is no object
StatusResponses ==
  {ConnectionError,
   Response(500, PyDict(<<Entry(T("models"), PyList(<<>>))>>)),
   Response(200, Exc), Response(200, PyDict(<<>>)),
   Response(200, PyDict(<<Entry(T("models"), PyNone)>>)),
   Response(200, PyDict(<<Entry(T("models"), PyList(<<>>))>>)),
   Response(200, PyDict(<<Entry(T("models"),
      PyList(<<PyDict(<<Entry(T("name"), PyStr(<<Word("llava"), Colon, Word("13b")>>))>>)>>))>>)),
   Response(200, PyDict(<<Entry(T("models"),
      PyList(<<PyDict(<<Entry(T("name"), PyStr(T("llama3.3")))>>), PyStr(T("junk"))>>))>>))}

\* a process with and without OLLAMA_API_BASE; the clock is at the process's start
InitStatus ==
  /\ config = DefaultConfig
  /\ hashSeed = 1
  /\ raw_input = PyNone
  /\ calls = PyNone
  /\ last = [op |-> "init"]
  /\ env \in {Config(FALSE, "unset", FALSE, FALSE, base, ConnectionError) : base \in BOOLEAN}
  /\ registry = EmptyRegistry
  /\ embedding_registry = EmptyRegistry
  /\ history = NoHistory
  /\ threads = NoThreads
  /\ _ollama_cache = EmptyCache
  /\ clock = 0
  /\ ret = [op |-> "init"]

\* time passes between two calls
Tick ==
  \E seconds \in {29, 30, 31} :
    /\ clock + seconds <= MaxElapsed
    /\ clock' = clock + seconds
    /\ UNCHANGED <<env, registry, embedding_registry, history, ret, threads, _ollama_cache>>
    /\ UNCHANGED adapterVars

\* a call of get_ollama_status; the call records the cache it found, the time,
\* and the answer the server had for it
GetOllamaStatus ==
  \E response \in StatusResponses :
    LET out == get_ollama_status(_ollama_cache, env, clock, response) IN
    /\ _ollama_cache' = out.cache
    /\ ret' = [op |-> "get_ollama_status", args |-> <<>>, result |-> out.result,
               contacted |-> out.contacted, now |-> clock, before |-> _ollama_cache,
               response |-> IF out.contacted THEN response ELSE ConnectionError]
    /\ UNCHANGED <<env, registry, embedding_registry, history, threads, clock>>
    /\ UNCHANGED adapterVars

NextStatus == Tick \/ GetOllamaStatus

SpecStatus == InitStatus /\ [][NextStatus]_vars

\* ------------------------------------------------------------------ claims

\* what a claim compares of a call: its tool name and its parameter names,
\* values and value types
CallView(c) == [tool_name |-> c.tool_name, parameters |-> c.parameters]
CallViews(cs) == [i \in 1..Len(cs) |-> CallView(cs[i])]

IsWellFormedXmlInput == \E w \in WellFormedXml : raw_input = PyStr(w.text)

\* C1: for a well-formed XML input x, normalizing what to_xml_format emits
\* for normalize_tool_calls(x) gives the calls of normalize_tool_calls(x) again:
\* the same tool names, parameter names, values and value types.
C1_XmlRoundTrip ==
  (/\ last.op = "normalize_emitted"
   /\ last.emitter = "to_xml_format"
   /\ IsWellFormedXmlInput)
  => /\ last.result.k = "list"
     /\ CallViews(last.result.xs) = CallViews(calls.xs)

ParamKeys(parameters) == {parameters.es[i].key : i \in 1..Len(parameters.es)}
ParamNames(inv) == {inv.params[i].name : i \in 1..Len(inv.params)}

\* C2: parsing a well-formed XML input yields one call per <invoke>, in
\* document order, each named by its own <invoke> and holding exactly the
\* parameters of its own <invoke>.
C2_OneCallPerInvoke ==
  last.op = "normalize_tool_calls" =>
    \A w \in WellFormedXml :
      raw_input = PyStr(w.text) =>
        LET invs == Concat(w.doc) IN
        /\ calls.k = "list"
        /\ Len(calls.xs) = Len(invs)
        /\ \A i \in 1..Len(invs) :
             /\ calls.xs[i].tool_name = PyStr(invs[i].name)
             /\ calls.xs[i].parameters.k = "dict"
             /\ ParamKeys(calls.xs[i].parameters) = ParamNames(invs[i])

\* the two record shapes of the external interface, with a string name and
\* arguments that are a mapping or a serialized object
WellFormedArguments(a) ==
  a.k = "dict" \/ (a.k = "str" /\ JsonLoads(a.s).k = "dict")

IsOpenAIShape(r) ==
  /\ r.k = "dict"
  /\ DictGet(r, T("type"), PyNone) = PyStr(T("function"))
  /\ HasKey(r, T("function"))
  /\ DictGet(r, T("function"), PyNone).k = "dict"

IsDirectShape(r) ==
  /\ r.k = "dict"
  /\ HasKey(r, T("name"))
  /\ ~(DictGet(r, T("type"), PyNone) = PyStr(T("function")) /\ HasKey(r, T("function")))

\* the mapping that holds a record's name and arguments
RecordBody(r) == IF IsOpenAIShape(r) THEN DictGet(r, T("function"), PyNone) ELSE r

WellFormedRecord(r) ==
  /\ IsOpenAIShape(r) \/ IsDirectShape(r)
  /\ HasKey(RecordBody(r), T("name"))
  /\ DictGet(RecordBody(r), T("name"), PyNone).k = "str"
  /\ HasKey(RecordBody(r), T("arguments"))
  /\ WellFormedArguments(DictGet(RecordBody(r), T("arguments"), PyNone))

\* the records of a payload: a list's elements, or the single record
BatchRecords(x) == IF x.k = "list" THEN x.xs ELSE <<x>>

WellFormedBatch(x) ==
  /\ x.k \in {"list", "dict"}
  /\ \A i \in 1..Len(BatchRecords(x)) : WellFormedRecord(BatchRecords(x)[i])

OriginalArguments(r) ==
  LET a == DictGet(RecordBody(r), T("arguments"), PyNone) IN
  IF a.k = "str" THEN JsonLoads(a.s) ELSE a

\* C3: for a well-formed native batch, to_native_format of the normalized
\* calls has one record per input record, in order, with the same tool name
\* and an arguments string that decodes to the original arguments mapping.
C3_NativeRoundTrip ==
  (last.op = "to_native_format" /\ WellFormedBatch(raw_input)) =>
    LET recs == BatchRecords(raw_input) IN
    /\ last.result.k = "list"
    /\ Len(last.result.xs) = Len(recs)
    /\ \A i \in 1..Len(recs) :
         LET f == DictGet(last.result.xs[i], T("function"), PyNone) IN
         /\ f.k = "dict"
         /\ DictGet(f, T("name"), PyNone) = DictGet(RecordBody(recs[i]), T("name"), PyNone)
         /\ DictGet(f, T("arguments"), PyNone).k = "str"
         /\ JsonLoads(DictGet(f, T("arguments"), PyNone).s) = OriginalArguments(recs[i])

C3_Witness ==
  /\ last.op = "to_native_format"
  /\ WellFormedBatch(raw_input)
  /\ raw_input.k = "list"
  /\ Len(raw_input.xs) = 2
  /\ \E i \in 1..2 : DictGet(RecordBody(raw_input.xs[i]), T("arguments"), PyNone).k = "str"
  /\ \E i \in 1..2 : DictGet(RecordBody(raw_input.xs[i]), T("arguments"), PyNone).k = "dict"
  /\ last.result.k = "list"
  /\ Len(last.result.xs) = 2

\* C4: every call normalize_tool_calls returns has a non-empty string as
\* its tool_name.
C4_ToolNameNonEmpty ==
  (last.op = "normalize_tool_calls" /\ calls.k = "list") =>
    \A i \in 1..Len(calls.xs) :
      calls.xs[i].tool_name.k = "str" /\ calls.xs[i].tool_name.s # <<>>

\* C5: normalize_tool_calls returns a list for every input and never raises;
\* None, the empty list, the empty string and the empty mapping give the
\* empty list, and so does an input that is not a string, list or mapping.
C5_NormalizeNeverRaises ==
  last.op = "normalize_tool_calls" =>
    /\ calls.k = "list"
    /\ raw_input \in {PyNone, PyList(<<>>), PyStr(<<>>), PyDict(<<>>)} => calls.xs = <<>>
    /\ raw_input.k \notin {"str", "list", "dict"} => calls.xs = <<>>

C5_Witness ==
  /\ last.op = "normalize_tool_calls"
  /\ raw_input.k = "list"
  /\ Len(raw_input.xs) = 2
  /\ raw_input.xs[1].k = "int"
  /\ calls.k = "list"
  /\ Len(calls.xs) = 1

\* the arguments the parser reads from a record, with the branch's default
ArgumentsOf(r) ==
  IF IsOpenAIShape(r)
    THEN DictGet(RecordBody(r), T("arguments"), PyStr(<<LBrace, RBrace>>))
    ELSE DictGet(r, T("arguments"), PyDict(<<>>))

ArgumentsParse(r) ==
  LET a == ArgumentsOf(r) IN a.k # "str" \/ a.s = <<>> \/ JsonLoads(a.s) # Exc

\* a record of one of the two shapes whose serialized arguments parse
Kept(r) == (IsOpenAIShape(r) \/ IsDirectShape(r)) /\ ArgumentsParse(r)

ExpectedCall(r) ==
  LET a == ArgumentsOf(r) IN
  NormalizedToolCall(DictGet(RecordBody(r), T("name"), PyNone),
                     IF a.k # "str" THEN a
                     ELSE IF a.s = <<>> THEN PyDict(<<>>) ELSE JsonLoads(a.s),
                     DictGet(r, T("id"), PyNone), "native", r)

HasSignature(r) == r.k = "dict" /\ (HasKey(r, T("function")) \/ HasKey(r, T("name")))

HasBothMarkers(c) ==
  c.k = "str" /\ TextHas(c.s, {"fc"}) /\ TextHas(c.s, {"inv", "invfrag"})

\* C7 as claimed: xml for a string with both markers, native for a mapping
\* with a function or name key and for a sequence with such a key in any of
\* its records, unknown for anything else.
C7_DetectAnyRecord ==
  last.op = "detect_format" =>
    last.result =
      IF HasBothMarkers(raw_input) THEN "xml"
      ELSE IF HasSignature(raw_input)
              \/ (raw_input.k = "list"
                  /\ \E i \in 1..Len(raw_input.xs) : HasSignature(raw_input.xs[i]))
        THEN "native"
      ELSE "unknown"

\* C7 as amended: a sequence is native exactly when its first record has a
\* function or name key.
C7_DetectFirstRecord ==
  last.op = "detect_format" =>
    last.result =
      IF HasBothMarkers(raw_input) THEN "xml"
      ELSE IF HasSignature(raw_input)
              \/ (raw_input.k = "list" /\ Len(raw_input.xs) > 0
                  /\ HasSignature(raw_input.xs[1]))
        THEN "native"
      ELSE "unknown"

C7_Witness ==
  /\ last.op = "detect_format"
  /\ raw_input.k = "list"
  /\ Len(raw_input.xs) = 2
  /\ ~HasSignature(raw_input.xs[1])
  /\ HasSignature(raw_input.xs[2])
  /\ last.result = "unknown"

\* the resolution order as the claim states it
ExpectNative(cfg, model_supports_native, prefer_format) ==
  \/ prefer_format = "native" /\ (model_supports_native \/ ~cfg.strict_mode)
  \/ /\ prefer_format # "xml"
     /\ cfg.auto_detect
     /\ model_supports_native
     /\ cfg.prefer_native

\* C8: adapt_for_model returns the native records exactly when the stated
\* resolution order selects native, and otherwise what to_xml_format gives,
\* for every preference, model capability and configuration.
C8_AdaptResolution ==
  last.op = "adapt_for_model" =>
    IF ExpectNative(config, last.model_supports_native, last.prefer_format)
      THEN last.result = to_native_format(calls) /\ last.result.k = "list"
      ELSE last.result = to_xml_format(calls) /\ last.result.k # "list"

C8_Witness ==
  /\ last.op = "adapt_for_model"
  /\ last.prefer_format = "native"
  /\ ~last.model_supports_native
  /\ config.strict_mode /\ config.auto_detect /\ config.prefer_native
  /\ Len(calls.xs) = 2
  /\ last.result.k = "str"

\* the id synthesized for a tool name
SynthesizedId(tool_name) == PyStr(<<Word("call_")>> \o PyStrOf(PyHash(tool_name)))

\* to_native_format emits one record per call, in order, of the shape
\* {id, type: "function", function: {name, arguments}}; a call whose call_id
\* is Present keeps it as id, any other gets an id made from the tool name
\* alone, equal for equal tool names
NativeRecordsOf(Present(_)) ==
  last.op = "to_native_format" =>
    /\ last.result.k = "list"
    /\ Len(last.result.xs) = Len(calls.xs)
    /\ \A i \in 1..Len(calls.xs) :
         LET c == calls.xs[i]
             r == last.result.xs[i]
         IN /\ r.k = "dict"
            /\ {r.es[n].key : n \in 1..Len(r.es)} = {T("id"), T("type"), T("function")}
            /\ DictGet(r, T("type"), PyNone) = PyStr(T("function"))
            /\ DictGet(DictGet(r, T("function"), PyNone), T("name"), Exc) = c.tool_name
            /\ Present(c) => DictGet(r, T("id"), PyNone) = c.call_id
            /\ ~Present(c) => DictGet(r, T("id"), PyNone) = SynthesizedId(c.tool_name)
            /\ \A j \in 1..Len(calls.xs) :
                 (~Present(c) /\ ~Present(calls.xs[j])
                  /\ calls.xs[j].tool_name = c.tool_name)
                 => DictGet(last.result.xs[j], T("id"), PyNone) = DictGet(r, T("id"), PyNone)

\* C9 as claimed: the id is the call_id whenever one was present.
C9_IdWhenPresent == NativeRecordsOf(LAMBDA c : c.call_id # PyNone)

\* C9 as amended: the id is the call_id whenever a non-empty one was present;
\* an absent or empty call_id gets the id synthesized from the tool name.
C9_IdWhenNonEmpty == NativeRecordsOf(LAMBDA c : Truthy(c.call_id))

C9_Witness ==
  /\ last.op = "to_native_format"
  /\ Len(calls.xs) = 2
  /\ calls.xs[1].tool_name = calls.xs[2].tool_name
  /\ calls.xs[1].parameters # calls.xs[2].parameters
  /\ calls.xs[1].call_id = PyStr(<<>>)
  /\ calls.xs[2].call_id = PyNone
  /\ DictGet(last.result.xs[1], T("id"), PyNone) = DictGet(last.result.xs[2], T("id"), PyNone)

\* the tokens of kind in t, in order
OfKind(t, kind) == SelectSeq(t, LAMBDA tok : tok.t = kind)

\* the positions of the tokens of kind in t, in order
RECURSIVE PositionsFrom(_, _, _)
PositionsFrom(t, kind, i) ==
  IF i > Len(t) THEN <<>>
  ELSE (IF t[i].t = kind THEN <<i>> ELSE <<>>) \o PositionsFrom(t, kind, i + 1)

AllMappings(cs) == \A i \in 1..Len(cs) : cs[i].parameters.k = "dict"

\* C10: to_xml_format gives the empty string for no calls, and for calls
\* with parameter mappings one <function_calls> block that holds one <invoke>
\* per call, in input order, each with one <parameter> per parameter.
C10_XmlShape ==
  last.op = "to_xml_format" =>
    /\ calls.xs = <<>> => last.result = PyStr(<<>>)
    /\ (calls.xs # <<>> /\ AllMappings(calls.xs)) =>
         /\ last.result.k = "str"
         /\ LET t == last.result.s
                opens == PositionsFrom(t, "inv", 1)
                closes == PositionsFrom(t, "einv", 1)
            IN /\ Len(OfKind(t, "fc")) = 1 /\ t[1] = FcOpen
               /\ Len(OfKind(t, "efc")) = 1 /\ t[Len(t)] = FcClose
               /\ Len(opens) = Len(calls.xs)
               /\ Len(closes) = Len(calls.xs)
               /\ \A i \in 1..Len(calls.xs) :
                    LET body == SubSeq(t, opens[i] + 1, closes[i] - 1)
                        pars == OfKind(body, "par")
                        es == calls.xs[i].parameters.es
                    IN /\ opens[i] < closes[i]
                       /\ i < Len(calls.xs) => closes[i] < opens[i + 1]
                       /\ t[opens[i]].name = PyStrOf(calls.xs[i].tool_name)
                       /\ Len(OfKind(body, "epar")) = Len(es)
                       /\ [n \in 1..Len(pars) |-> pars[n].name]
                            = [n \in 1..Len(es) |-> es[n].key]

C10_Witness ==
  /\ last.op = "to_xml_format"
  /\ Len(calls.xs) = 2
  /\ AllMappings(calls.xs)
  /\ \A i \in 1..2 : Len(calls.xs[i].parameters.es) >= 1
  /\ last.result.k = "str"

\* ------------------------------------------------------- registry claims

\* the strings a caller can ask for
StringArgs == {x \in IdArgs : x.k = "str"}

EqualIgnoringCase(s, t) == Lower(s.s) = Lower(t.s)

\* the ids and aliases of a descriptor, as arguments of a lookup
NamesOf(model) ==
  {PyStr(model.id)} \cup {PyStr(model.aliases[i]) : i \in 1..Len(model.aliases)}

\* the descriptors a registry holds
Catalog(self) == {self.models.es[i].val : i \in 1..Len(self.models.es)}

\* C11: lookup is case-insensitive for ids and aliases: in every state reached by
\* register calls on either registry, two strings that are equal ignoring case get
\* the same result (the same descriptor, or both absent), and resolve_model_id of
\* an id or alias of a registered descriptor returns that descriptor's id.
C11_CaseInsensitiveLookup ==
  /\ \A s \in StringArgs, t \in StringArgs :
       EqualIgnoringCase(s, t) =>
         /\ get(registry, s) = get(registry, t)
         /\ embedding_get(embedding_registry, s) = embedding_get(embedding_registry, t)
  /\ \A model \in Catalog(registry) : \A n \in NamesOf(model) :
       resolve_model_id(registry, n) = PyStr(model.id)

\* the keys of a dict are pairwise different
UniqueKeys(d) == \A i \in 1..Len(d.es), j \in 1..Len(d.es) : d.es[i].key = d.es[j].key => i = j

\* a register call has just been made on the registry named by op
JustRegistered(op) ==
  /\ history'.registrations = history.registrations + 1
  /\ ret'.op = op

\* what C12 asks of one register call: model is the one descriptor under its id,
\* its id, lower-cased id and aliases resolve to it, and the names of the other
\* descriptors that it did not claim resolve as before
LastWriteWins(before, after, model, lookup(_, _)) ==
  /\ UniqueKeys(after.models)
  /\ Cardinality({e \in Catalog(after) : e.id = model.id}) = 1
  /\ lookup(after, PyStr(model.id)) = model
  /\ lookup(after, PyStr(Lower(model.id))) = model
  /\ \A n \in NamesOf(model) : lookup(after, n) = model
  /\ \A e \in Catalog(before) : \A n \in NamesOf(e) \cup {PyStr(Lower(e.id))} :
       (e.id # model.id /\ Lower(n.s) \notin RegisteredNames(model)) =>
         lookup(after, n) = lookup(before, n)

\* C12: register is insert-or-replace by id and the last write wins: after a
\* register call the catalog holds one descriptor per id, get(id) returns the
\* descriptor just registered under it, and its lower-cased id and every alias of
\* it resolve to it until a later registration of another descriptor claims the name.
C12_LastWriteWins ==
  [][/\ JustRegistered("register") =>
          LastWriteWins(registry, registry', ret'.args[1], get)
     /\ JustRegistered("embedding_register") =>
          LastWriteWins(embedding_registry, embedding_registry', ret'.args[1],
                        embedding_get)]_vars

\* the enabled descriptors of a registry
Enabled(self) == {e \in Catalog(self) : e.enabled}

\* the place of an id in the catalog: the order in which ids were first registered
Position(self, id) == CHOOSE i \in 1..Len(self.models.es) : self.models.es[i].key = id

\* the enabled descriptors of the highest priority
TopEnabled(self) == {e \in Enabled(self) : \A o \in Enabled(self) : o.priority <= e.priority}

\* C13: get_default_model returns an enabled descriptor of maximum priority among
\* the enabled ones, never a disabled one whatever its priority; among several
\* enabled descriptors of that priority it returns the one registered first, and
\* a repeated call on the unchanged catalog returns the same descriptor.
C13_DefaultModel ==
  [][(ret'.op = "get_default_model" /\ Enabled(embedding_registry) # {}) =>
       /\ ret'.result \in TopEnabled(embedding_registry)
       /\ \A e \in TopEnabled(embedding_registry) :
            Position(embedding_registry, ret'.result.id) <= Position(embedding_registry, e.id)
       /\ ret.op = "get_default_model" => ret'.result = ret.result]_vars

\* two enabled descriptors share the highest priority and the first was returned
C13_Witness ==
  /\ ret.op = "get_default_model"
  /\ Cardinality(TopEnabled(embedding_registry)) = 2
  /\ ret.result = embedding_registry.models.es[1].val

\* the elements of a list
Elements(xs) == {xs[i] : i \in 1..Len(xs)}

\* the keys of a table of to_legacy_format
TableKeys(es) == {es[i].key : i \in 1..Len(es)}

\* the descriptors any listing of the ModelRegistry with enabled_only true returns
Listed(self) ==
  Elements(get_all(self, TRUE))
    \cup UNION {Elements(get_by_tier(self, t, TRUE)) : t \in {"free", "paid"}}
    \cup UNION {Elements(get_by_provider(self, p, TRUE)) :
                  p \in {"anthropic", "google", "ollama"}}
    \cup UNION {Elements(get_by_capability(self, c, TRUE)) :
                  c \in {"chat", "vision", "function_calling"}}

\* the ids any table of to_legacy_format holds
LegacyIds(self) ==
  LET legacy == to_legacy_format(self) IN
  TableKeys(legacy.MODELS) \cup TableKeys(legacy.HARDCODED_MODEL_PRICES)
    \cup TableKeys(legacy.MODEL_CONTEXT_WINDOWS)
    \cup Elements(legacy.FREE_TIER_MODELS) \cup Elements(legacy.PAID_TIER_MODELS)

\* a disabled descriptor is in no listing and is never the default, and its id
\* still gets it
DisabledExcluded ==
  /\ \A d \in Catalog(registry) \ Enabled(registry) :
       /\ d \notin Listed(registry)
       /\ d.id \notin LegacyIds(registry)
       /\ get(registry, PyStr(d.id)) = d
       /\ resolve_model_id(registry, PyStr(d.id)) = PyStr(d.id)
  /\ \A d \in Catalog(embedding_registry) \ Enabled(embedding_registry) :
       /\ d \notin Elements(embedding_get_all(embedding_registry, TRUE))
       /\ get_default_model(embedding_registry).result # d
       /\ embedding_get(embedding_registry, PyStr(d.id)) = d

\* two results of get that differ at most in the enabled flag
SameButEnabled(x, y) ==
  IF x.k = "model" /\ y.k = "model"
    THEN [x EXCEPT !.enabled = TRUE] = [y EXCEPT !.enabled = TRUE]
    ELSE x = y

\* a toggle has just been made
JustToggled == ret'.op \in {"enable_model", "disable_model"} /\ registry' # registry

\* C14: in every state reached by register, enable_model and disable_model a
\* disabled descriptor is left out of every listing with enabled_only true
\* (get_all, get_by_tier, get_by_provider, get_by_capability, to_legacy_format)
\* and of the default selection, while get and resolve_model_id still return it:
\* its id gets it, and every id or alias resolves after the toggle to the
\* descriptor it resolved to before.
C14_DisabledStillResolvable ==
  [][/\ (registry' # registry \/ embedding_registry' # embedding_registry) =>
          DisabledExcluded'
     /\ JustToggled =>
          \A n \in StringArgs :
            /\ resolve_model_id(registry', n) = resolve_model_id(registry, n)
            /\ SameButEnabled(get(registry', n), get(registry, n))]_vars

\* a descriptor has just been disabled; an alias of it resolves to it and another
\* descriptor is still listed
C14_Witness ==
  /\ ret.op = "disable_model"
  /\ ret.result = PyBool(TRUE)
  /\ \E d \in Catalog(registry) \ Enabled(registry) :
       /\ \E n \in NamesOf(d) : n.s # d.id /\ get(registry, n) = d
       /\ ret.args[1] \in NamesOf(d)
  /\ Enabled(registry) # {}

\* the ids of the catalog, in registration order
IdsInOrder(self) == [i \in 1..Len(self.models.es) |-> self.models.es[i].key]

\* what C15 asks of one toggle: find is the descriptor the argument resolved to
\* before the call, value the flag the call writes
OnlyTheFlag(before, after, result, find, value, again) ==
  /\ after.aliases = before.aliases
  /\ IdsInOrder(after) = IdsInOrder(before)
  /\ IF find.k = "model"
       THEN /\ result = PyBool(TRUE)
            /\ \A i \in 1..Len(before.models.es) :
                 after.models.es[i].val =
                   IF before.models.es[i].key = find.id
                     THEN [before.models.es[i].val EXCEPT !.enabled = value]
                     ELSE before.models.es[i].val
       ELSE /\ result = PyBool(FALSE)
            /\ after = before
  /\ again = Outcome(after, result)

\* C15: enable_model and disable_model change nothing but the enabled flag of the
\* one descriptor their argument resolves to: the registered ids, their order, the
\* alias table, every other descriptor and every other field stay as they were;
\* for an argument that resolves to nothing they return False and leave the
\* registry unchanged; a second identical call changes nothing more.
C15_ToggleFrame ==
  [][/\ (ret'.op = "enable_model" /\ (ret' # ret \/ registry' # registry)) =>
          /\ OnlyTheFlag(registry, registry', ret'.result, get(registry, ret'.args[1]),
                         TRUE, enable_model(registry', ret'.args[1]))
          /\ embedding_registry' = embedding_registry
     /\ (ret'.op = "disable_model" /\ (ret' # ret \/ registry' # registry)) =>
          /\ OnlyTheFlag(registry, registry', ret'.result, get(registry, ret'.args[1]),
                         FALSE, disable_model(registry', ret'.args[1]))
          /\ embedding_registry' = embedding_registry]_vars

\* one of two registered descriptors has just been disabled through an alias
C15_Witness ==
  /\ ret.op = "disable_model"
  /\ ret.result = PyBool(TRUE)
  /\ Len(registry.models.es) = 2
  /\ ~HasKey(registry.models, ret.args[1].s)
  /\ Cardinality(Enabled(registry)) = 1

Unknown(model_id, registered_names) ==
  model_id.k = "str" => (model_id.s = <<>> \/ Lower(model_id.s) \notin registered_names)

Raised(result) == result.k = "exc"

C18_NoDefaultIsAnError ==
  /\ Enabled(embedding_registry) = {} =>
       /\ get_default_model(embedding_registry).result = PyNone
       /\ \A model_id \in IdArgs :
            Unknown(model_id, history.embedding_names) =>
              get_embedding_model(embedding_registry, model_id) = ValueError
  /\ Enabled(embedding_registry) # {} =>
       /\ get_default_model(embedding_registry).result \in Enabled(embedding_registry)
       /\ \A model_id \in {PyNone, PyStr(<<>>)} :
            get_embedding_model(embedding_registry, model_id)
              = get_default_model(embedding_registry).result

\* the only registered embedding model is disabled and get_embedding_model raised
C18_Witness ==
  /\ embedding_registry.models.es # <<>>
  /\ Enabled(embedding_registry) = {}
  /\ ret.op = "get_embedding_model"
  /\ ret.result = ValueError

\* the configuration with the discovery not configured
NotConfigured(cfg) == [cfg EXCEPT !.OLLAMA_API_BASE = FALSE]

\* the entries of an answer that carry a name the discovery could register
NamedEntries(response) ==
  IF response.raised THEN {}
  ELSE IF response.status_code # 200 \/ response.json = Exc THEN {}
  ELSE IF response.json.k # "dict" THEN {}
  ELSE LET models_data == DictGet(response.json, T("models"), PyList(<<>>))
       IN IF models_data.k # "list" THEN {}
          ELSE {i \in 1..Len(models_data.xs) :
                  /\ models_data.xs[i].k = "dict"
                  /\ DictGet(models_data.xs[i], T("name"), PyStr(<<>>)).k = "str"
                  /\ DictGet(models_data.xs[i], T("name"), PyStr(<<>>)).s # <<>>}

\* the ids and the lower-cased names of a registry
KnownNames(self) == TableKeys(self.models.es) \cup TableKeys(self.aliases.es)

\* C19: whatever the Ollama server answers, the construction of either registry
\* returns without an exception, and when it returns every id and alias that the
\* same configuration registers without OLLAMA_API_BASE resolves to the descriptor
\* it resolves to there, an answer without a named entry leaving the registry as
\* it is there; a later lookup of such a name returns that descriptor
C19_DiscoveryIsBestEffort ==
  /\ ret.op = "ModelRegistry" =>
       LET plain == ModelRegistry(NotConfigured(env)).self
       IN /\ ret.result = PyNone
          /\ \A n \in KnownNames(plain) : get(registry, PyStr(n)) = get(plain, PyStr(n))
          /\ \A n \in TableKeys(plain.models.es) : get(registry, PyStr(n)).k = "model"
          /\ NamedEntries(env.response) = {} => registry = plain
  /\ ret.op = "EmbeddingModelRegistry" =>
       LET plain == EmbeddingModelRegistry(NotConfigured(env)).self
       IN /\ ret.result = PyNone
          /\ \A n \in KnownNames(plain) :
               embedding_get(embedding_registry, PyStr(n)) = embedding_get(plain, PyStr(n))
          /\ \A n \in TableKeys(plain.models.es) :
               embedding_get(embedding_registry, PyStr(n)).k = "embedding_model"
          /\ NamedEntries(env.response) = {} => embedding_registry = plain
  /\ ret.op = "get" =>
       LET plain == ModelRegistry(NotConfigured(env)).self
       IN Lower(ret.args[1].s) \in KnownNames(plain) =>
            ret.result = get(plain, ret.args[1])
  /\ ret.op = "embedding_get" =>
       LET plain == EmbeddingModelRegistry(NotConfigured(env)).self
       IN Lower(ret.args[1].s) \in KnownNames(plain) =>
            ret.result = embedding_get(plain, ret.args[1])

\* both registries are constructed against a server whose list has a named entry
\* before a malformed one, and a static alias is looked up in another case
C19_Witness ==
  /\ env.OLLAMA_API_BASE
  /\ env.response =
       Response(200, PyDict(<<Entry(T("models"),
                                    PyList(<<PyDict(<<Entry(T("name"), PyStr(T("llama3.3")))>>),
                                             PyStr(T("junk"))>>))>>))
  /\ registry # EmptyRegistry
  /\ registry # ModelRegistry(NotConfigured(env)).self
  /\ embedding_registry # EmptyRegistry
  /\ ret.op = "get"
  /\ ret.args = <<PyStr(T("Claude Sonnet 4.5"))>>
  /\ ret.result.k = "model"

\* the tier a caller is served under: paid when the subscription lookup says so,
\* free otherwise, a failed lookup included
CallerTier(cfg) == IF tier_name(cfg.subscription) = PyStr(T("paid")) THEN "paid" ELSE "free"

\* the canonical ids of the enabled descriptors offered under a tier
AvailableIds(self, tier) ==
  {PyStr(e.id) : e \in {o \in Enabled(self) : ListHas(o.tier_availability.xs, tier)}}

\* the reason given for a model outside the caller's tier
TierReason(model_id) == AboutModel(model_id, "' is not available for your subscription tier")

\* C20: validate_model_for_user returns a (is_valid, error_msg) pair for every id
\* and every answer of the subscription lookup, a raising one included. None and
\* "" give (False, non-empty reason) with no collaborator consulted; an id no
\* descriptor has, or one of a disabled descriptor, gives (False, reason); in local
\* mode every other id passes; outside local mode it passes exactly when the id of
\* the descriptor it resolves to is among the enabled descriptors of the caller's
\* tier, and is refused with the reason naming the subscription tier otherwise;
\* every passing pair has the empty reason.
C20_ValidationReturnsAPair ==
  ret.op = "validate_model_for_user" =>
    LET model_id == ret.args[1]
        pair == ret.result.value
        model == get(registry, model_id)
    IN /\ pair.k = "tuple"
       /\ pair.is_valid => pair.error_msg = PyStr(<<>>)
       /\ ~pair.is_valid => pair.error_msg.k = "str" /\ pair.error_msg.s # <<>>
       /\ ~Truthy(model_id) => ~pair.is_valid /\ ret.result.asked = {}
       /\ Truthy(model_id) /\ model = PyNone => ~pair.is_valid
       /\ Truthy(model_id) /\ model # PyNone =>
            IF ~model.enabled THEN ~pair.is_valid
            ELSE IF env.local THEN pair.is_valid
            ELSE /\ pair.is_valid <=> PyStr(model.id) \in AvailableIds(registry, CallerTier(env))
                 /\ ~pair.is_valid => pair.error_msg = TierReason(model_id)

\* outside local mode the subscription lookup raises: the alias of a descriptor of
\* the paid tier is refused while the registry has a descriptor of the free tier
C20_Witness ==
  /\ ~env.local
  /\ env.subscription = Exc
  /\ ret.op = "validate_model_for_user"
  /\ ret.args = <<PyStr(n_A)>>
  /\ get(registry, PyStr(n_A)) # PyNone
  /\ get(registry, PyStr(n_A)).id = n_pa
  /\ ret.result.value = Pair(FALSE, TierReason(PyStr(n_A)))
  /\ PyStr(n_a) \in AvailableIds(registry, "free")

\* the tier name a subscription answer carries, PyNone when it carries none
SubscribedTierName(subscription_info) ==
  IF subscription_info.k # "dict" THEN PyNone
  ELSE IF ~Truthy(DictGet(subscription_info, T("subscription"), PyNone)) THEN PyNone
  ELSE IF ~HasKey(subscription_info, T("tier")) THEN PyNone
  ELSE DictGet(DictGet(subscription_info, T("tier"), PyNone), T("name"), PyNone)

\* paid exactly when a subscription exists whose tier name is neither free nor none
EntitledTier(subscription_info) ==
  IF SubscribedTierName(subscription_info) \in {PyNone, PyStr(T("free")), PyStr(T("none"))}
    THEN "free"
    ELSE "paid"

AtomicResult(op, args, self) ==
  CASE op = "get" -> get(self, args[1])
    [] op = "embedding_get" -> embedding_get(self, args[1])
    [] op = "get_all" -> PyList(get_all(self, args[1]))
    [] op = "get_by_tier" -> PyList(get_by_tier(self, args[1], args[2]))

\* two registry states that differ in nothing but the enabled flag of id
DifferInEnabled(s, t, id) ==
  /\ s.aliases = t.aliases
  /\ Len(s.models.es) = Len(t.models.es)
  /\ \A i \in 1..Len(s.models.es) :
       /\ s.models.es[i].key = t.models.es[i].key
       /\ IF s.models.es[i].key = id
            THEN [s.models.es[i].val EXCEPT !.enabled = TRUE]
                   = [t.models.es[i].val EXCEPT !.enabled = TRUE]
            ELSE s.models.es[i].val = t.models.es[i].val

ReaderReturned == ret.op \in {"get", "get_all", "get_by_tier"} /\ ret.writes > 0

\* C22: enable_model and disable_model are one field update: a get, get_all or
\* get_by_tier during which the flag of one descriptor m was written, and nothing
\* else, returns what it returns on the registry before or after a write of the
\* flag, and the states the registry went through during the call differ in
\* nothing but m.enabled: no other field, no other descriptor, no alias.
C22_ToggleIsOneFieldUpdate ==
  (ReaderReturned /\ ret.stored = 0) =>
    /\ Cardinality(ret.toggled) = 1 =>
         \E s \in ret.seen : ret.result = AtomicResult(ret.op, ret.args, s)
    /\ \A s, t \in ret.seen :
         \/ s = t
         \/ \E id \in ret.toggled :
              /\ DifferInEnabled(s, t, id)
              /\ DictGet(s.models, id, PyNone).enabled # DictGet(t.models, id, PyNone).enabled
         \/ Cardinality(ret.toggled) > 1

\* a get_all(enabled_only=True) over two descriptors that overlapped one toggle
\* and returned the list of the state after it
C22_Witness ==
  /\ ret.op = "get_all" /\ ret.args = <<TRUE>>
  /\ ret.stored = 0 /\ ret.toggled = {n_pa} /\ Cardinality(ret.seen) = 2
  /\ Len(registry.models.es) = 2
  /\ ret.result = PyList(get_all(registry, TRUE))
  /\ \E s \in ret.seen : ret.result # PyList(get_all(s, TRUE))

\* the stored result is younger than 60 seconds at the time of the call
StoredIsFresh == ret.before.tags # PyNone /\ ret.now - ret.before.timestamp < 60

\* C23: get_ollama_status keeps its result for 60 seconds: a call made less than
\* 60 seconds after the stored timestamp returns the stored result, available or
\* not, without asking the server and leaves the cache as it is; a call at or
\* after 60 seconds asks the configured server again and stores its result with
\* the time of the call; an answer that failed or has another status than 200
\* gives available False with no models; no call raises.
C23_StatusIsCachedFor60Seconds ==
  ret.op = "get_ollama_status" =>
    /\ ret.result.k = "status"
    /\ StoredIsFresh =>
         /\ ~ret.contacted
         /\ ret.result = ret.before.tags
         /\ _ollama_cache = ret.before
    /\ ~StoredIsFresh =>
         /\ ret.contacted = env.OLLAMA_API_BASE
         /\ _ollama_cache = [tags |-> ret.result, timestamp |-> ret.now]
         /\ ~env.OLLAMA_API_BASE => ret.result = Status(FALSE, {})
    /\ (ret.contacted /\ (ret.response.raised \/ ret.response.status_code # 200)) =>
         ret.result = Status(FALSE, {})

\* a call 59 seconds after an answer that failed returned the stored failure
\* without asking the server again
C23_Witness ==
  /\ ret.op = "get_ollama_status"
  /\ env.OLLAMA_API_BASE
  /\ ret.before = [tags |-> Status(FALSE, {}), timestamp |-> 60]
  /\ ret.now = 119
  /\ ~ret.contacted
  /\ ret.result = Status(FALSE, {})

\* the subscription lookup fails: get_subscription raises, or answers None, on
\* which the next statement raises
LookupFails == env.subscription \in {Exc, PyNone}

\* the enabled descriptors offered under the free tier
EnabledFree(self) == {e \in Enabled(self) : ListHas(e.tier_availability.xs, "free")}

\* C24: get_available_models fails closed: outside local mode, when the lookup of
\* the subscription raises, the result is exactly the enabled free-tier models,
\* whatever include_disabled is, and validate_model_for_user accepts only the
\* names of those; in local mode the lookup is not consulted and the models of
\* every tier are returned.
C24_FailsClosedToFreeTier ==
  /\ (ret.op = "get_available_models" /\ ~env.local /\ LookupFails) =>
       /\ ret.result.value.k = "list"
       /\ Elements(ret.result.value.xs) = EnabledFree(registry)
       /\ Len(ret.result.value.xs) = Cardinality(EnabledFree(registry))
  /\ (ret.op = "validate_model_for_user" /\ ~env.local /\ LookupFails) =>
       /\ ret.result.value # Exc
       /\ ret.result.value.is_valid => get(registry, ret.args[1]) \in EnabledFree(registry)
  /\ (ret.op = "get_available_models" /\ env.local) =>
       /\ ret.result.asked = {"registry"}
       /\ Elements(ret.result.value.xs) =
            IF ret.args[1] THEN Catalog(registry) ELSE Enabled(registry)

\* the lookup raised and the caller asked for the disabled models too: the
\* enabled free-tier descriptor is returned, the disabled one is not
C24_Witness ==
  /\ ret.op = "get_available_models" /\ ret.args = <<TRUE>>
  /\ ~env.local /\ env.subscription = Exc
  /\ ret.result.value.xs # <<>>
  /\ \E d \in Catalog(registry) : ~d.enabled /\ ListHas(d.tier_availability.xs, "free")

\* every value of the alias table is a key of the catalog
AliasesResolve(self) ==
  \A i \in 1..Len(self.aliases.es) : HasKey(self.models, self.aliases.es[i].val.s)

\* a get that found its alias is about to read the catalog
AtAliasHit == threads.reader.pc = "resolve"

\* C25: referential integrity of the alias table: in every state of both
\* registries, the states between the writes of a register call included, every
\* alias value is an id of the catalog, and a get of a concurrent reader that
\* found an alias finds the descriptor under the id the alias names.
C25_AliasesNameCatalogIds ==
  /\ AliasesResolve(registry)
  /\ AliasesResolve(embedding_registry)
  /\ AtAliasHit =>
       HasKey(IF ReadsEmbedding(threads.reader) THEN embedding_registry.models
                                                ELSE registry.models,
              threads.reader.locals.actual_id.s)

\* a reader's get has found an alias while a register call, which wrote during
\* the get, has written its catalog entry and not yet all of its aliases
C25_Witness ==
  /\ AtAliasHit
  /\ threads.reader.stored > 0
  /\ threads.writer.pc = "register"
  /\ threads.writer.step \in 1..(register_steps(threads.writer.model) - 1)

\* the alias entries of a registry that the descriptor stored under their id
\* does not declare: the key is neither its lower-cased id nor one of its aliases
Unjustified(self) ==
  {self.aliases.es[i] : i \in 1..Len(self.aliases.es)} \
    {e \in {self.aliases.es[i] : i \in 1..Len(self.aliases.es)} :
       /\ HasKey(self.models, e.val.s)
       /\ e.key \in RegisteredNames(DictGet(self.models, e.val.s, PyNone))}

\* C26: the alias table stays consistent with the catalog across re-registration:
\* after any sequence of register calls every alias entry a -> id is justified by
\* the descriptor now stored under id (a is its lower-cased id or one of its
\* lower-cased aliases), so no alias of a replaced descriptor keeps resolving.
C26_AliasesAreJustified == Unjustified(registry) = {}

\* C27: every call normalize_tool_calls returns has a mapping as its parameters,
\* whatever the arguments of the record were (a string that decodes to a number,
\* array, string or null, a value that is neither string nor mapping), so that
\* to_xml_format, to_native_format and adapt_for_model complete on the result.
C27_ParametersAreMappings ==
  /\ Normalized => \A i \in 1..Len(calls.xs) : calls.xs[i].parameters.k = "dict"
  /\ last.op \in {"to_xml_format", "to_native_format", "adapt_for_model"} =>
       last.result # Exc

\* detect_format has been asked about the payload that was normalized
Detected == last.op = "detect_format" /\ calls # Exc

\* C28 as claimed: detect_format agrees with normalize_tool_calls on every input: when
\* normalize_tool_calls returns at least one call, detect_format does not answer
\* unknown and answers the source_format of the calls; when detect_format
\* answers native for a single mapping, normalize_tool_calls returns exactly one
\* call for it.
C28_DetectAgreesWithNormalize ==
  Detected =>
    /\ Len(calls.xs) >= 1 =>
         /\ last.result # "unknown"
         /\ \A i \in 1..Len(calls.xs) : calls.xs[i].source_format = last.result
    /\ (last.result = "native" /\ raw_input.k = "dict") => Len(calls.xs) = 1

\* C28 as amended: detect_format never contradicts normalize_tool_calls: an
\* answer other than unknown is the source_format of every call returned; for a
\* string or a single mapping, a call returned means the answer is not unknown;
\* for a sequence the answer is native whenever the first record parses; a single
\* mapping that is answered native gives at most one call.
C28_DetectNeverContradicts ==
  Detected =>
    /\ (Len(calls.xs) >= 1 /\ last.result # "unknown") =>
         \A i \in 1..Len(calls.xs) : calls.xs[i].source_format = last.result
    /\ (Len(calls.xs) >= 1 /\ raw_input.k # "list") => last.result # "unknown"
    /\ (raw_input.k = "list" /\ Len(raw_input.xs) > 0
          /\ parse_single_native_call(raw_input.xs[1]) # PyNone) => last.result = "native"
    /\ (last.result = "native" /\ raw_input.k = "dict") => Len(calls.xs) <= 1

\* a sequence of two records, both parsed, answered native
C28_Witness ==
  /\ Detected
  /\ raw_input.k = "list"
  /\ Len(calls.xs) = 2
  /\ last.result = "native"
  /\ calls.xs[1].source_format = "native"

\* C29: the format switches of AdapterConfig gate adapt_for_model: with
\* enable_native False it returns no native records, whatever prefer_format,
\* model_supports_native and the other flags are.
C29_EnableNativeGatesOutput ==
  (last.op = "adapt_for_model" /\ ~config.enable_native) =>
    ~(last.result.k = "list" /\ last.result.xs # <<>>)

\* a listing of the enabled descriptors has returned, and no register call wrote
\* during it
ListingReturned ==
  /\ ret.op \in {"get_all", "get_by_tier"}
  /\ ret.args[Len(ret.args)]
  /\ ret.stored = 0

\* the ids of the descriptors a listing returned
ListedIds == {ret.result.xs[i].id : i \in 1..Len(ret.result.xs)}

\* the descriptors the listing is about: all of them, or those of its tier
InScope(d) == ret.op = "get_all" \/ ListHas(d.tier_availability.xs, ret.args[1])

\* C30 as claimed: a get_all(enabled_only=True) or get_by_tier that overlaps
\* toggles of different descriptors returns exactly the enabled descriptors of one
\* catalog state that existed between the start and the end of the call.
C30_ListingsAreSnapshots ==
  ListingReturned =>
    \E s \in ret.seen : ret.result = AtomicResult(ret.op, ret.args, s)

\* C30 as amended: the listing is consistent descriptor by descriptor: every
\* descriptor returned was enabled in a catalog state that existed during the
\* call and is returned once, as that state held it; every descriptor of the
\* listing's scope that is left out was disabled in such a state; and when at
\* most one descriptor was toggled during the call the listing is that of one
\* such state.
C30_ListingsArePerDescriptor ==
  ListingReturned =>
    /\ \A i \in 1..Len(ret.result.xs) :
         /\ InScope(ret.result.xs[i])
         /\ \E s \in ret.seen : ret.result.xs[i] \in Enabled(s)
         /\ \A j \in 1..Len(ret.result.xs) : ret.result.xs[i].id = ret.result.xs[j].id => i = j
    /\ \A d \in Catalog(registry) :
         (InScope(d) /\ d.id \notin ListedIds) =>
           \E s \in ret.seen : ~DictGet(s.models, d.id, PyNone).enabled
    /\ Cardinality(ret.toggled) <= 1 =>
         \E s \in ret.seen : ret.result = AtomicResult(ret.op, ret.args, s)

\* a get_all(enabled_only=True) returned two descriptors that were toggled during
\* the call and were never enabled together
C30_Witness ==
  /\ ret.op = "get_all" /\ ret.args = <<TRUE>> /\ ret.stored = 0
  /\ ret.toggled = {n_pa, n_b}
  /\ ListedIds = {n_pa, n_b}
  /\ \A s \in ret.seen : Cardinality(Enabled(s)) <= 1

====
